---- MODULE Spec2Model ----
(***************************************************************************)
(* Leave / payroll core of the Bheem HR service (HRService in              *)
(* src/src/bheem_hr/core/services/hr_service.py).  HRService defines many  *)
(* of its methods several times; Python keeps the LAST definition of a     *)
(* name in a class body, so the operations below are translated from the   *)
(* last definitions (create_leave_request at 3677, update_leave_request at *)
(* 3774, approve_leave_request at 3800, process_payroll at 3455, ...).     *)
(*                                                                         *)
(* Dates are day ordinals counted from 2024-01-01 (= 0); amounts are       *)
(* Decimal values modelled as integers; UUID primary keys are modelled as  *)
(* fresh small integers.                                                   *)
(*                                                                         *)
(* The tables are leave_requests, payroll_runs, payslips,                  *)
(* salary_structures and attendance; calls holds the local variables of    *)
(* the create_leave_request coroutines that are between two awaits; last   *)
(* is the most recent call with its response.                              *)
(***************************************************************************)
EXTENDS Integers, Sequences, FiniteSets, TLC

VARIABLES leave_requests, leave_seq, payroll_runs, payslips, salary_structures,
          attendance, calls, last

vars == <<leave_requests, leave_seq, payroll_runs, payslips, salary_structures,
          attendance, calls, last>>

(* ---------------------------- bounds ----------------------------------- *)
MaxLeaves == 2
MaxRuns == 2
MaxPayslips == 3
MaxStructures == 2
MaxRecords == 6
MaxMixed == 3

(* ------------------------- employee directory --------------------------- *)
\* Three employees: 1 and 2 are ACTIVE (different companies, different hire
\* dates), 3 is not ACTIVE.  Employee 2 is hired on 2024-03-03 (day 62), so
\* its probation ends on 2024-06-01 (day 152).
Employees ==
    [e \in {1, 2, 3} |->
        CASE e = 1 -> [hire_date |-> 0,  company_id |-> 1, employment_status |-> "ACTIVE"]
          [] e = 2 -> [hire_date |-> 62, company_id |-> 2, employment_status |-> "ACTIVE"]
          [] e = 3 -> [hire_date |-> 0,  company_id |-> 1, employment_status |-> "TERMINATED"]]

EmployeeIds == DOMAIN Employees

\* an employee_id that matches no row of hr.employees
UnknownEmployee == 9

LeaveStatusEnum == {"PENDING", "APPROVED", "REJECTED"}

RunStatuses == {"Draft", "Processed", "Paid"}

\* (start_date, end_date) pairs offered to create/update_leave_request:
\* 2024-02-01..2024-02-03, 2024-06-01..2024-06-02, 2024-06-02..2024-06-02,
\* and 2024-02-03..2024-02-01 (end before start, which nothing rejects).
LeaveSpans == {<<31, 33>>, <<152, 153>>, <<153, 153>>, <<33, 31>>}

(* --------------------------- date helpers ------------------------------- *)
\* lengths of the months of 2024
DaysInMonth == <<31, 29, 31, 30, 31, 30, 31, 31, 30, 31, 30, 31>>

\* mutant: a month is taken to hold one day more than it has
RECURSIVE MonthFrom_inclusive(_, _)
MonthFrom_inclusive(d, m) ==
    IF d <= DaysInMonth[m] THEN m ELSE MonthFrom_inclusive(d - DaysInMonth[m], m + 1)

RECURSIVE MonthFrom(_, _)
MonthFrom(d, m) ==
    IF d < DaysInMonth[m] THEN m ELSE MonthFrom(d - DaysInMonth[m], m + 1)

\* date.strftime("%Y-%m") for a day ordinal of 2024, as <<year, month>>
YearMonth(d) == <<2024, MonthFrom(d, 1)>>

(* -------------------- create_leave_request helpers ---------------------- *)
ProbationDays == 90

\* mutant: the last probation day is not counted
IsProbation_strict(employee, start_date) ==
    start_date < employee.hire_date + ProbationDays

IsProbation(employee, start_date) ==
    start_date <= employee.hire_date + ProbationDays

LeaveDays(start_date, end_date) == (end_date - start_date) + 1

DeductionPerDay(is_probation) == IF is_probation THEN 2 ELSE 1

TotalDeductionDays(employee, start_date, end_date) ==
    LeaveDays(start_date, end_date) * DeductionPerDay(IsProbation(employee, start_date))

\* the sequences over S of length 0..n
SeqsUpTo(S, n) == UNION {[1..k -> S] : k \in 0..n}

\* uuid.uuid4 defaults of the primary keys
FreshLeaveId == leave_seq + 1
FreshRunId == Cardinality(payroll_runs) + 1
FreshPayslipId == Cardinality(payslips) + 1
FreshStructureId == Cardinality(salary_structures) + 1

\* select(PayrollRun).where(month == ..., company_id == ...)
RunsFor(month, company_id) ==
    {r \in payroll_runs : r.month = month /\ r.company_id = company_id}

\* mutant: the payslip is looked up by employee alone
PayslipsFor_anyRun(slips, employee_id, run_id) ==
    {p \in slips : p.employee_id = employee_id}

\* select(Payslip).where(employee_id == ..., payroll_run_id == ...)
PayslipsFor(slips, employee_id, run_id) ==
    {p \in slips : p.employee_id = employee_id /\ p.payroll_run_id = run_id}

\* the create_leave_request calls that may be in flight together
Calls == 1..MaxLeaves

Init ==
    /\ leave_requests = {}
    /\ leave_seq = 0
    /\ payroll_runs = {}
    /\ payslips = {}
    /\ salary_structures = {}
    /\ attendance = {}
    /\ calls = [c \in Calls |-> [pc |-> "idle"]]
    /\ last = [op |-> "init", code |-> 0]

\* mutant: the deduction replaces the payslip's total instead of adding to it
ApplyDeduction_overwrite(payslip, total_deduction_days) ==
    [payslip EXCEPT !.total_deductions = total_deduction_days,
                    !.net_pay = payslip.total_earnings - total_deduction_days]

\* Step 7 of create_leave_request: total_deductions += ..., net_pay recomputed
ApplyDeduction(payslip, total_deduction_days) ==
    LET total_deductions == payslip.total_deductions + total_deduction_days
    IN [payslip EXCEPT !.total_deductions = total_deductions,
                       !.net_pay = payslip.total_earnings - total_deductions]

(* ============================ LEAVE REQUESTS ============================ *)
\* mutant: the request row is stored before the employee is looked up
EmployeeNotFound_afterInsert(call) ==
    /\ leave_seq < MaxLeaves
    /\ last' = call @@ [code |-> 404]
    /\ leave_requests' = leave_requests \cup
           {[id |-> FreshLeaveId, employee_id |-> call.employee_id,
             start_date |-> call.start_date, end_date |-> call.end_date,
             status |-> "PENDING"]}
    /\ leave_seq' = leave_seq + 1
    /\ UNCHANGED <<payroll_runs, payslips, salary_structures, attendance, calls>>

\* Step 1 of create_leave_request when no employee row matches: HTTP 404 is
\* raised before anything is added to the session
EmployeeNotFound(call) ==
    /\ last' = call @@ [code |-> 404]
    /\ UNCHANGED <<leave_requests, leave_seq, payroll_runs, payslips, salary_structures,
                   attendance, calls>>

\* HRService.create_leave_request (last definition)
CreateLeaveRequest(employee_id, start_date, end_date, status) ==
    LET call == [op |-> "create_leave_request", employee_id |-> employee_id,
                 start_date |-> start_date, end_date |-> end_date]
    IN
    IF employee_id \notin EmployeeIds
    THEN \* Step 1: employee not found
         EmployeeNotFound(call)
    ELSE
      LET employee == Employees[employee_id]
          \* Step 3: LeaveRequest(**data.model_dump()), committed
          leave_request == [id |-> FreshLeaveId, employee_id |-> employee_id,
                            start_date |-> start_date, end_date |-> end_date,
                            status |-> status]
          \* Step 4
          total_deduction_days == TotalDeductionDays(employee, start_date, end_date)
          \* Step 5: get or create PayrollRun
          payroll_month == YearMonth(start_date)
          found_runs == RunsFor(payroll_month, employee.company_id)
          payroll_run ==
              IF found_runs = {}
              THEN [id |-> FreshRunId, month |-> payroll_month,
                    status |-> "Draft", company_id |-> employee.company_id]
              ELSE CHOOSE r \in found_runs : TRUE
          \* Step 6: get or create Payslip
          found_slips == PayslipsFor(payslips, employee_id, payroll_run.id)
          payslip ==
              IF found_slips = {}
              THEN [id |-> FreshPayslipId, employee_id |-> employee_id,
                    payroll_run_id |-> payroll_run.id,
                    total_earnings |-> 0, total_deductions |-> 0, net_pay |-> 0]
              ELSE CHOOSE p \in found_slips : TRUE
          \* Step 7: apply deduction
          posted == ApplyDeduction(payslip, total_deduction_days)
      IN
      /\ leave_seq < MaxLeaves
      /\ found_runs = {} => Cardinality(payroll_runs) < MaxRuns
      /\ (Cardinality(found_runs) <= 1 /\ found_slips = {})
            => Cardinality(payslips) < MaxPayslips
      /\ leave_requests' = leave_requests \cup {leave_request}
      /\ leave_seq' = leave_seq + 1
      /\ UNCHANGED <<salary_structures, attendance, calls>>
      /\ IF Cardinality(found_runs) > 1
         THEN \* scalar_one_or_none raises MultipleResultsFound after the
              \* leave request was committed
              /\ last' = call @@ [code |-> 500]
              /\ UNCHANGED <<payroll_runs, payslips>>
         ELSE /\ payroll_runs' = payroll_runs \cup {payroll_run}
              /\ IF Cardinality(found_slips) > 1
                 THEN /\ last' = call @@ [code |-> 500]
                      /\ UNCHANGED payslips
                 ELSE /\ payslips' = (payslips \ found_slips) \cup {posted}
                      /\ last' = call @@ [code |-> 201]

\* HRService.get_leave_request: db.get(LeaveRequest, leave_id)
GetLeaveRequest(leave_id) == {l \in leave_requests : l.id = leave_id}

\* HRService.update_leave_request (last definition): every field of the
\* payload, status included, is copied onto the row
UpdateLeaveRequest(leave_id, employee_id, start_date, end_date, status) ==
    LET call == [op |-> "update_leave_request", leave_id |-> leave_id]
        found == GetLeaveRequest(leave_id)
    IN
    /\ UNCHANGED <<leave_seq, payroll_runs, payslips, salary_structures, attendance, calls>>
    /\ IF found = {}
       THEN /\ last' = call @@ [code |-> 404]
            /\ UNCHANGED leave_requests
       ELSE LET leave_request == CHOOSE l \in found : TRUE
                updated == [id |-> leave_request.id, employee_id |-> employee_id,
                            start_date |-> start_date, end_date |-> end_date,
                            status |-> status]
            IN /\ leave_requests' = (leave_requests \ found) \cup {updated}
               /\ last' = call @@ [code |-> 200, was |-> leave_request.status]

\* HRService.delete_leave_request (last definition)
DeleteLeaveRequest(leave_id) ==
    LET call == [op |-> "delete_leave_request", leave_id |-> leave_id]
        found == GetLeaveRequest(leave_id)
    IN
    /\ UNCHANGED <<leave_seq, payroll_runs, payslips, salary_structures, attendance, calls>>
    /\ IF found = {}
       THEN /\ last' = call @@ [code |-> 404]
            /\ UNCHANGED leave_requests
       ELSE /\ leave_requests' = leave_requests \ found
            /\ last' = call @@ [code |-> 204, was |-> (CHOOSE l \in found : TRUE).status]

\* HRService.approve_leave_request (last definition)
ApproveLeaveRequest(leave_id) ==
    LET call == [op |-> "approve_leave_request", leave_id |-> leave_id]
        found == GetLeaveRequest(leave_id)
    IN
    /\ UNCHANGED <<leave_seq, payroll_runs, payslips, salary_structures, attendance, calls>>
    /\ IF found = {}
       THEN /\ last' = call @@ [code |-> 404]
            /\ UNCHANGED leave_requests
       ELSE LET leave_request == CHOOSE l \in found : TRUE
            IN /\ leave_requests' =
                      (leave_requests \ found) \cup {[leave_request EXCEPT !.status = "APPROVED"]}
               /\ last' = call @@ [code |-> 200, was |-> leave_request.status]

\* mutant: rejecting a request takes its deduction back off the payslips
RejectLeaveRequest_refund(leave_id) ==
    LET call == [op |-> "reject_leave_request", leave_id |-> leave_id]
        found == GetLeaveRequest(leave_id)
    IN
    /\ UNCHANGED <<leave_seq, payroll_runs, salary_structures, attendance, calls>>
    /\ IF found = {}
       THEN /\ last' = call @@ [code |-> 404]
            /\ UNCHANGED <<leave_requests, payslips>>
       ELSE LET leave_request == CHOOSE l \in found : TRUE
                refund == 0 - TotalDeductionDays(Employees[leave_request.employee_id],
                                                 leave_request.start_date,
                                                 leave_request.end_date)
            IN /\ leave_requests' =
                      (leave_requests \ found) \cup {[leave_request EXCEPT !.status = "REJECTED"]}
               /\ payslips' =
                      {IF p.employee_id = leave_request.employee_id
                       THEN ApplyDeduction(p, refund) ELSE p : p \in payslips}
               /\ last' = call @@ [code |-> 200, was |-> leave_request.status]

\* HRService.reject_leave_request (last definition)
RejectLeaveRequest(leave_id) ==
    LET call == [op |-> "reject_leave_request", leave_id |-> leave_id]
        found == GetLeaveRequest(leave_id)
    IN
    /\ UNCHANGED <<leave_seq, payroll_runs, payslips, salary_structures, attendance, calls>>
    /\ IF found = {}
       THEN /\ last' = call @@ [code |-> 404]
            /\ UNCHANGED leave_requests
       ELSE LET leave_request == CHOOSE l \in found : TRUE
            IN /\ leave_requests' =
                      (leave_requests \ found) \cup {[leave_request EXCEPT !.status = "REJECTED"]}
               /\ last' = call @@ [code |-> 200, was |-> leave_request.status]

LeaveIds == 1..MaxLeaves

\* ---- the leave workflow: create / update / delete / approve / reject ----
\* (employee 1, two of the spans; update keeps the row's employee)
WorkflowSpans == {<<31, 33>>, <<153, 153>>}

LeaveCreate ==
    \E e \in {1, UnknownEmployee}, sp \in WorkflowSpans, st \in LeaveStatusEnum :
        CreateLeaveRequest(e, sp[1], sp[2], st)

LeaveUpdate ==
    \E i \in LeaveIds, sp \in WorkflowSpans, st \in LeaveStatusEnum :
        UpdateLeaveRequest(i, 1, sp[1], sp[2], st)

LeaveDelete == \E i \in LeaveIds : DeleteLeaveRequest(i)

LeaveApprove == \E i \in LeaveIds : ApproveLeaveRequest(i)

LeaveReject == \E i \in LeaveIds : RejectLeaveRequest(i)

NextLeave ==
    \/ LeaveCreate
    \/ LeaveUpdate
    \/ LeaveDelete
    \/ LeaveApprove
    \/ LeaveReject

SpecLeave == Init /\ [][NextLeave]_vars

\* ---- the deduction linker alone: sequential create_leave_request calls ----
LinkerCreate ==
    \E e \in EmployeeIds \cup {UnknownEmployee}, sp \in LeaveSpans, st \in LeaveStatusEnum :
        CreateLeaveRequest(e, sp[1], sp[2], st)

NextLinker == LinkerCreate

SpecLinker == Init /\ [][NextLinker]_vars

(* ================================ PAYROLL ================================ *)
SalaryComponentType == {"BASIC", "ALLOWANCE", "BONUS", "DEDUCTION"}

\* mutant: BONUS components are left out of the earnings
EarningTypes_noBonus == {"BASIC", "ALLOWANCE"}

\* the component types process_payroll adds to total_earnings
EarningTypes == {"BASIC", "ALLOWANCE", "BONUS"}

\* the component type process_payroll adds to total_deductions
DeductionTypes == {"DEDUCTION"}

\* the loop over salary_structure.components, for one of the two totals
RECURSIVE SumAmounts(_, _)
SumAmounts(components, types) ==
    IF components = <<>>
    THEN 0
    ELSE (IF Head(components).component_type \in types
          THEN Head(components).amount ELSE 0)
         + SumAmounts(Tail(components), types)

\* HRService.create_salary_structure
CreateSalaryStructure(employee_id, is_active, components) ==
    /\ Cardinality(salary_structures) < MaxStructures
    /\ salary_structures' = salary_structures \cup
           {[id |-> FreshStructureId, employee_id |-> employee_id,
             is_active |-> is_active, components |-> components]}
    /\ last' = [op |-> "create_salary_structure", code |-> 201]
    /\ UNCHANGED <<leave_requests, leave_seq, payroll_runs, payslips, attendance, calls>>

\* HRService.get_payroll_run: db.get(PayrollRun, run_id)
GetPayrollRun(run_id) == {r \in payroll_runs : r.id = run_id}

\* select(SalaryStructure).where(employee_id == ..., is_active == True)
ActiveStructures(employee_id) ==
    {s \in salary_structures : s.employee_id = employee_id /\ s.is_active}

\* select(Employee).where(Employee.employment_status == "ACTIVE")
ActiveEmployees == {e \in EmployeeIds : Employees[e].employment_status = "ACTIVE"}

\* the Payslip row process_payroll builds for one employee
ProcessedPayslip(id, employee_id, run_id, salary_structure) ==
    LET total_earnings == SumAmounts(salary_structure.components, EarningTypes)
        total_deductions == SumAmounts(salary_structure.components, DeductionTypes)
    IN [id |-> id, employee_id |-> employee_id, payroll_run_id |-> run_id,
        total_earnings |-> total_earnings, total_deductions |-> total_deductions,
        net_pay |-> total_earnings - total_deductions]

\* mutant: only Paid runs are refused
Processable_unlessPaid(payroll_run) == payroll_run.status # "Paid"

\* the status check at the head of process_payroll
Processable(payroll_run) == payroll_run.status = "Draft"

\* HRService.process_payroll (last definition)
ProcessPayroll(run_id) ==
    LET call == [op |-> "process_payroll", run_id |-> run_id]
        found == GetPayrollRun(run_id)
    IN
    /\ UNCHANGED <<leave_requests, leave_seq, salary_structures, attendance, calls>>
    /\ IF found = {}
       THEN /\ last' = call @@ [code |-> 404]
            /\ UNCHANGED <<payroll_runs, payslips>>
       ELSE
         LET payroll_run == CHOOSE r \in found : TRUE
             \* employees for which the loop body adds a payslip
             paid == {e \in ActiveEmployees : ActiveStructures(e) # {}}
             rank(e) == Cardinality({x \in paid : x <= e})
             new_slips ==
                 {ProcessedPayslip(Cardinality(payslips) + rank(e), e, payroll_run.id,
                                   CHOOSE s \in ActiveStructures(e) : TRUE) : e \in paid}
         IN
         IF ~Processable(payroll_run)
         THEN /\ last' = call @@ [code |-> 400, was |-> payroll_run.status]
              /\ UNCHANGED <<payroll_runs, payslips>>
         ELSE IF \E e \in ActiveEmployees : Cardinality(ActiveStructures(e)) > 1
         THEN \* scalar_one_or_none raises MultipleResultsFound; nothing
              \* was committed
              /\ last' = call @@ [code |-> 500, was |-> payroll_run.status]
              /\ UNCHANGED <<payroll_runs, payslips>>
         ELSE /\ Cardinality(payslips) + Cardinality(paid) <= MaxPayslips
              /\ payslips' = payslips \cup new_slips
              /\ payroll_runs' =
                     (payroll_runs \ found) \cup {[payroll_run EXCEPT !.status = "Processed"]}
              /\ last' = call @@ [code |-> 200, was |-> payroll_run.status]

\* HRService.update_payroll_run (last definition): month and status of the
\* payload are copied onto the run
UpdatePayrollRun(run_id, month, status) ==
    LET call == [op |-> "update_payroll_run", run_id |-> run_id]
        found == GetPayrollRun(run_id)
    IN
    /\ UNCHANGED <<leave_requests, leave_seq, payslips, salary_structures, attendance, calls>>
    /\ IF found = {}
       THEN /\ last' = call @@ [code |-> 404]
            /\ UNCHANGED payroll_runs
       ELSE LET payroll_run == CHOOSE r \in found : TRUE
            IN /\ payroll_runs' = (payroll_runs \ found) \cup
                      {[payroll_run EXCEPT !.month = month, !.status = status]}
               /\ last' = call @@ [code |-> 200]

\* HRService.create_payslip (last definition): Payslip(**data.model_dump())
CreatePayslip(employee_id, run_id, total_earnings, total_deductions, net_pay) ==
    LET call == [op |-> "create_payslip"]
    IN
    /\ UNCHANGED <<leave_requests, leave_seq, payroll_runs, salary_structures, attendance, calls>>
    /\ IF GetPayrollRun(run_id) = {} \/ employee_id \notin EmployeeIds
       THEN \* foreign key violation at commit
            /\ last' = call @@ [code |-> 500]
            /\ UNCHANGED payslips
       ELSE /\ Cardinality(payslips) < MaxPayslips
            /\ payslips' = payslips \cup
                   {[id |-> FreshPayslipId, employee_id |-> employee_id,
                     payroll_run_id |-> run_id, total_earnings |-> total_earnings,
                     total_deductions |-> total_deductions, net_pay |-> net_pay]}
            /\ last' = call @@ [code |-> 201]

\* HRService.get_payslip: db.get(Payslip, payslip_id)
GetPayslip(payslip_id) == {p \in payslips : p.id = payslip_id}

\* HRService.update_payslip (last definition): every field of the payload is
\* copied onto the row
UpdatePayslip(payslip_id, employee_id, run_id, total_earnings, total_deductions, net_pay) ==
    LET call == [op |-> "update_payslip"]
        found == GetPayslip(payslip_id)
    IN
    /\ UNCHANGED <<leave_requests, leave_seq, payroll_runs, salary_structures, attendance, calls>>
    /\ IF found = {}
       THEN /\ last' = call @@ [code |-> 404]
            /\ UNCHANGED payslips
       ELSE IF GetPayrollRun(run_id) = {} \/ employee_id \notin EmployeeIds
       THEN /\ last' = call @@ [code |-> 500]
            /\ UNCHANGED payslips
       ELSE /\ payslips' = (payslips \ found) \cup
                   {[id |-> payslip_id, employee_id |-> employee_id,
                     payroll_run_id |-> run_id, total_earnings |-> total_earnings,
                     total_deductions |-> total_deductions, net_pay |-> net_pay]}
            /\ last' = call @@ [code |-> 200]

RunIds == 1..MaxRuns

PayslipIds == 1..MaxPayslips

\* (employee_id, is_active, components) payloads of create_salary_structure
StructureInputs ==
    LET small == <<[component_type |-> "BASIC", amount |-> 5],
                   [component_type |-> "DEDUCTION", amount |-> 1]>>
        large == <<[component_type |-> "ALLOWANCE", amount |-> 2],
                   [component_type |-> "DEDUCTION", amount |-> 3],
                   [component_type |-> "BONUS", amount |-> 1],
                   [component_type |-> "BASIC", amount |-> 4],
                   [component_type |-> "DEDUCTION", amount |-> 1]>>
    IN {<<1, TRUE, small>>, <<1, FALSE, small>>, <<2, TRUE, large>>, <<3, TRUE, small>>}

\* ---- payroll processing: leave requests open the runs, salary structures
\* ---- are created, runs are processed and their status is edited
PayrollSpans == {<<31, 33>>, <<152, 153>>}

PayrollLeave ==
    \E sp \in PayrollSpans : CreateLeaveRequest(1, sp[1], sp[2], "PENDING")

\* (structures of the ACTIVE employees; the TERMINATED employee's structure
\* is offered in the lazy-materialization runs below)
PayrollStructure ==
    \E i \in {j \in StructureInputs : j[1] # 3} : CreateSalaryStructure(i[1], i[2], i[3])

PayrollProcess == \E r \in RunIds : ProcessPayroll(r)

\* (a run becomes Processed through process_payroll; the update sets it back
\* to Draft or on to Paid)
PayrollRunUpdate ==
    \E r \in RunIds, st \in RunStatuses \ {"Processed"} :
        UpdatePayrollRun(r, <<2024, 2>>, st)

Next ==
    \/ PayrollLeave
    \/ PayrollStructure
    \/ PayrollProcess
    \/ PayrollRunUpdate

Spec == Init /\ [][Next]_vars

\* ---- payslip writers: the linker, the processor and the payslip CRUD ----
\* (total_earnings, total_deductions, net_pay) payloads of the payslip CRUD
PayslipAmounts == {<<1, 0, 1>>, <<1, 1, 1>>}

SlipLeave == CreateLeaveRequest(1, 31, 33, "PENDING")

SlipStructure ==
    \E i \in {j \in StructureInputs : j[1] = 1 /\ j[2]} :
        CreateSalaryStructure(i[1], i[2], i[3])

SlipProcess == \E r \in RunIds : ProcessPayroll(r)

SlipCreate ==
    \E r \in RunIds, a \in PayslipAmounts : CreatePayslip(1, r, a[1], a[2], a[3])

SlipUpdate ==
    \E p \in PayslipIds, r \in RunIds, a \in PayslipAmounts :
        UpdatePayslip(p, 1, r, a[1], a[2], a[3])

NextPayslip ==
    \/ SlipLeave
    \/ SlipStructure
    \/ SlipProcess
    \/ SlipCreate
    \/ SlipUpdate

SpecPayslip == Init /\ [][NextPayslip]_vars

\* ---- lazy materialization: the linker for two employees of one company,
\* ---- interleaved with payroll processing
MaterializeLeave ==
    \E e \in {1, 3}, sp \in PayrollSpans : CreateLeaveRequest(e, sp[1], sp[2], "PENDING")

MaterializeStructure ==
    \E i \in {j \in StructureInputs : j[1] \in {1, 3}} :
        CreateSalaryStructure(i[1], i[2], i[3])

MaterializeProcess == \E r \in RunIds : ProcessPayroll(r)

NextMaterialize ==
    \/ MaterializeLeave
    \/ MaterializeStructure
    \/ MaterializeProcess

SpecMaterialize == Init /\ [][NextMaterialize]_vars

(* ================= create_leave_request, await by await ================= *)
\* Every await of create_leave_request is a point where another request's
\* coroutine (or another worker process) runs; each request has its own
\* session, and a statement sees what was committed before it.  calls[c]
\* holds the local variables of call c between two awaits.

\* mutant: the increment is applied to the row as it is when it is written
SessionPayslip_reread(payslip, slips) == CHOOSE p \in slips : p.id = payslip.id

\* the Payslip object that Step 7 increments: the session's object, with the
\* values loaded by the select or the refresh; it is not read again
SessionPayslip(payslip, slips) == payslip

\* the call ends: the response is recorded
CallDone(c, code) ==
    /\ calls' = [calls EXCEPT ![c] = [pc |-> "done", call |-> calls[c].call, code |-> code]]
    /\ last' = calls[c].call @@ [code |-> code]

\* Steps 1-4: employee lookup, LeaveRequest added and committed
LeaveRequestInsert(c, employee_id, start_date, end_date, status) ==
    LET call == [op |-> "create_leave_request", employee_id |-> employee_id,
                 start_date |-> start_date, end_date |-> end_date]
    IN
    /\ calls[c].pc = "idle"
    /\ UNCHANGED <<payroll_runs, payslips, salary_structures, attendance>>
    /\ IF employee_id \notin EmployeeIds
       THEN /\ last' = call @@ [code |-> 404]
            /\ UNCHANGED <<leave_requests, leave_seq, calls>>
       ELSE /\ leave_seq < MaxLeaves
            /\ leave_requests' = leave_requests \cup
                   {[id |-> FreshLeaveId, employee_id |-> employee_id,
                     start_date |-> start_date, end_date |-> end_date,
                     status |-> status]}
            /\ leave_seq' = leave_seq + 1
            /\ calls' = [calls EXCEPT ![c] =
                   [pc |-> "select_run", call |-> call,
                    total_deduction_days |->
                        TotalDeductionDays(Employees[employee_id], start_date, end_date)]]
            /\ UNCHANGED last

\* Step 5, the select: scalar_one_or_none over the runs of (month, company)
PayrollRunSelect(c) ==
    LET employee == Employees[calls[c].call.employee_id]
        found_runs == RunsFor(YearMonth(calls[c].call.start_date), employee.company_id)
    IN
    /\ calls[c].pc = "select_run"
    /\ UNCHANGED <<leave_requests, leave_seq, payroll_runs, payslips, salary_structures,
                   attendance>>
    /\ IF Cardinality(found_runs) > 1
       THEN CallDone(c, 500)
       ELSE /\ calls' = [calls EXCEPT ![c] =
                   IF found_runs = {}
                   THEN [@ EXCEPT !.pc = "insert_run"]
                   ELSE [pc |-> "select_payslip", call |-> @.call,
                         total_deduction_days |-> @.total_deduction_days,
                         run_id |-> (CHOOSE r \in found_runs : TRUE).id]]
            /\ UNCHANGED last

\* Step 5, no run was found: a Draft run is added and committed
PayrollRunInsert(c) ==
    LET employee == Employees[calls[c].call.employee_id]
    IN
    /\ calls[c].pc = "insert_run"
    /\ Cardinality(payroll_runs) < MaxRuns
    /\ payroll_runs' = payroll_runs \cup
           {[id |-> FreshRunId, month |-> YearMonth(calls[c].call.start_date),
             status |-> "Draft", company_id |-> employee.company_id]}
    /\ calls' = [calls EXCEPT ![c] =
           [pc |-> "select_payslip", call |-> @.call,
            total_deduction_days |-> @.total_deduction_days, run_id |-> FreshRunId]]
    /\ UNCHANGED <<leave_requests, leave_seq, payslips, salary_structures, attendance, last>>

\* Step 6, the select: scalar_one_or_none over the payslips of (employee, run)
PayslipSelect(c) ==
    LET found_slips == PayslipsFor(payslips, calls[c].call.employee_id, calls[c].run_id)
    IN
    /\ calls[c].pc = "select_payslip"
    /\ UNCHANGED <<leave_requests, leave_seq, payroll_runs, payslips, salary_structures,
                   attendance>>
    /\ IF Cardinality(found_slips) > 1
       THEN CallDone(c, 500)
       ELSE /\ calls' = [calls EXCEPT ![c] =
                   IF found_slips = {}
                   THEN [@ EXCEPT !.pc = "insert_payslip"]
                   ELSE [pc |-> "apply", call |-> @.call,
                         total_deduction_days |-> @.total_deduction_days,
                         run_id |-> @.run_id,
                         payslip |-> CHOOSE p \in found_slips : TRUE]]
            /\ UNCHANGED last

\* Step 6, no payslip was found: a zeroed payslip is added and committed
PayslipInsert(c) ==
    /\ calls[c].pc = "insert_payslip"
    /\ Cardinality(payslips) < MaxPayslips
    /\ payslips' = payslips \cup
           {[id |-> FreshPayslipId, employee_id |-> calls[c].call.employee_id,
             payroll_run_id |-> calls[c].run_id,
             total_earnings |-> 0, total_deductions |-> 0, net_pay |-> 0]}
    /\ calls' = [calls EXCEPT ![c] =
           [pc |-> "refresh_payslip", call |-> @.call,
            total_deduction_days |-> @.total_deduction_days,
            run_id |-> @.run_id, payslip_id |-> FreshPayslipId]]
    /\ UNCHANGED <<leave_requests, leave_seq, payroll_runs, salary_structures, attendance,
                   last>>

\* Step 6, db.refresh(payslip): the new row is loaded as it is now
PayslipRefresh(c) ==
    /\ calls[c].pc = "refresh_payslip"
    /\ calls' = [calls EXCEPT ![c] =
           [pc |-> "apply", call |-> @.call,
            total_deduction_days |-> @.total_deduction_days,
            run_id |-> @.run_id,
            payslip |-> CHOOSE p \in payslips : p.id = calls[c].payslip_id]]
    /\ UNCHANGED <<leave_requests, leave_seq, payroll_runs, payslips, salary_structures,
                   attendance, last>>

\* Step 7: the session's payslip is incremented and the commit writes its
\* total_deductions and net_pay to the row
DeductionCommit(c) ==
    LET posted == ApplyDeduction(SessionPayslip(calls[c].payslip, payslips),
                                 calls[c].total_deduction_days)
    IN
    /\ calls[c].pc = "apply"
    /\ payslips' = {IF p.id = posted.id
                    THEN [p EXCEPT !.total_deductions = posted.total_deductions,
                                   !.net_pay = posted.net_pay]
                    ELSE p : p \in payslips}
    /\ CallDone(c, 201)
    /\ UNCHANGED <<leave_requests, leave_seq, payroll_runs, salary_structures, attendance>>

\* ---- concurrent requests of employee 1 for February 2024 ----
\* 2024-02-01..2024-02-03 (deduction 6) and 2024-02-02..2024-02-02 (deduction 2)
RaceSpans == {<<31, 33>>, <<32, 32>>}

RaceBegin ==
    \E c \in Calls, sp \in RaceSpans : LeaveRequestInsert(c, 1, sp[1], sp[2], "PENDING")

RaceRunSelect == \E c \in Calls : PayrollRunSelect(c)

RaceRunInsert == \E c \in Calls : PayrollRunInsert(c)

RacePayslipSelect == \E c \in Calls : PayslipSelect(c)

RacePayslipInsert == \E c \in Calls : PayslipInsert(c)

RacePayslipRefresh == \E c \in Calls : PayslipRefresh(c)

RaceCommit == \E c \in Calls : DeductionCommit(c)

NextRace ==
    \/ RaceBegin
    \/ RaceRunSelect
    \/ RaceRunInsert
    \/ RacePayslipSelect
    \/ RacePayslipInsert
    \/ RacePayslipRefresh
    \/ RaceCommit

SpecRace == Init /\ [][NextRace]_vars

(* =================== process_payroll, await by await =================== *)
\* process_payroll awaits get_payroll_run, the employee select, one
\* structure select per employee and the commit.  The payslips it builds
\* are added to the session and written by the one commit at the end;
\* calls[c] holds the run as it was loaded, the employees still to visit and
\* the payslips pending in the session.

\* mutant: the payslips added so far are written when the call fails
ProcessAbort_partial(c) ==
    LET pending == calls[c].pending
        rank(e) == Cardinality({x \in pending : x.employee_id <= e})
    IN
    /\ Cardinality(payslips) + Cardinality(pending) <= MaxPayslips
    /\ calls' = [calls EXCEPT ![c] =
           [pc |-> "done", call |-> @.call, code |-> 500, pending |-> @.pending]]
    /\ last' = calls[c].call @@ [code |-> 500]
    /\ payslips' = payslips \cup
           {ProcessedPayslip(Cardinality(payslips) + rank(x.employee_id), x.employee_id,
                             calls[c].payroll_run.id, x.salary_structure) : x \in pending}
    /\ UNCHANGED payroll_runs

\* scalar_one_or_none raises MultipleResultsFound inside the loop: the call
\* ends before the commit and the session's pending payslips are dropped
ProcessAbort(c) ==
    /\ calls' = [calls EXCEPT ![c] =
           [pc |-> "done", call |-> @.call, code |-> 500, pending |-> @.pending]]
    /\ last' = calls[c].call @@ [code |-> 500]
    /\ UNCHANGED <<payroll_runs, payslips>>

\* get_payroll_run and the status check
ProcessBegin(c, run_id) ==
    LET call == [op |-> "process_payroll", run_id |-> run_id]
        found == GetPayrollRun(run_id)
    IN
    /\ calls[c].pc = "idle"
    /\ UNCHANGED <<leave_requests, leave_seq, payroll_runs, payslips, salary_structures,
                   attendance>>
    /\ IF found = {}
       THEN /\ last' = call @@ [code |-> 404]
            /\ UNCHANGED calls
       ELSE LET payroll_run == CHOOSE r \in found : TRUE
            IN IF ~Processable(payroll_run)
               THEN /\ last' = call @@ [code |-> 400]
                    /\ UNCHANGED calls
               ELSE /\ calls' = [calls EXCEPT ![c] =
                           [pc |-> "select_employees", call |-> call,
                            payroll_run |-> payroll_run]]
                    /\ UNCHANGED last

\* select(Employee).where(employment_status == "ACTIVE")
ProcessEmployeesSelect(c) ==
    /\ calls[c].pc = "select_employees"
    /\ calls' = [calls EXCEPT ![c] =
           [pc |-> IF ActiveEmployees = {} THEN "commit" ELSE "select_structure",
            call |-> @.call, payroll_run |-> @.payroll_run,
            todo |-> ActiveEmployees, pending |-> {}]]
    /\ UNCHANGED <<leave_requests, leave_seq, payroll_runs, payslips, salary_structures,
                   attendance, last>>

\* one iteration of the loop: the structure select of the next employee (the
\* employee select has no ORDER BY, so any employee left may be next) and,
\* when one active structure is found, the payslip added to the session
ProcessStructureSelect(c) ==
    /\ calls[c].pc = "select_structure"
    /\ UNCHANGED <<leave_requests, leave_seq, salary_structures, attendance>>
    /\ \E employee_id \in calls[c].todo :
          LET found == ActiveStructures(employee_id)
              todo == calls[c].todo \ {employee_id}
          IN IF Cardinality(found) > 1
             THEN ProcessAbort(c)
             ELSE /\ calls' = [calls EXCEPT ![c] =
                         [pc |-> IF todo = {} THEN "commit" ELSE "select_structure",
                          call |-> @.call, payroll_run |-> @.payroll_run,
                          todo |-> todo,
                          pending |-> @.pending \cup
                              {[employee_id |-> employee_id, salary_structure |-> s] :
                                  s \in found}]]
                  /\ UNCHANGED <<payroll_runs, payslips, last>>

\* mutant: a pending payslip replaces the payslips of its employee and run
CommittedPayslips_upsert(slips, new_slips) ==
    {p \in slips : ~\E n \in new_slips : /\ n.employee_id = p.employee_id
                                         /\ n.payroll_run_id = p.payroll_run_id}
    \cup new_slips

\* the payslips table after the commit: the pending Payslip objects are new
\* rows, inserted beside the rows that are there
CommittedPayslips(slips, new_slips) == slips \cup new_slips

\* payroll_run.status = "Processed" and the commit: the pending payslips are
\* inserted and the run's status is updated in one transaction
ProcessCommit(c) ==
    LET pending == calls[c].pending
        payroll_run == calls[c].payroll_run
        rank(e) == Cardinality({x \in pending : x.employee_id <= e})
        new_slips ==
            {ProcessedPayslip(Cardinality(payslips) + rank(x.employee_id), x.employee_id,
                              payroll_run.id, x.salary_structure) : x \in pending}
    IN
    /\ calls[c].pc = "commit"
    /\ Cardinality(payslips) + Cardinality(pending) <= MaxPayslips
    /\ payslips' = CommittedPayslips(payslips, new_slips)
    /\ payroll_runs' = {IF r.id = payroll_run.id
                        THEN [r EXCEPT !.status = "Processed"]
                        ELSE r : r \in payroll_runs}
    /\ calls' = [calls EXCEPT ![c] =
           [pc |-> "done", call |-> @.call, code |-> 200, pending |-> @.pending]]
    /\ last' = calls[c].call @@ [code |-> 200]
    /\ UNCHANGED <<leave_requests, leave_seq, salary_structures, attendance>>

\* ---- two process_payroll calls in flight, over the salary structures of
\* ---- the two ACTIVE employees and the runs opened by leave requests
ProcessCalls == {1, 2}

\* the salary_structures table after the create_salary_structure calls of a
\* sequence of payloads
StructureTable(inputs) ==
    {[id |-> i, employee_id |-> inputs[i][1], is_active |-> inputs[i][2],
      components |-> inputs[i][3]] : i \in DOMAIN inputs}

\* up to MaxStructures + 1 active structures of employees 1 and 2
StructureTables ==
    {StructureTable(inputs) :
        inputs \in SeqsUpTo({j \in StructureInputs : j[1] \in {1, 2} /\ j[2]},
                            MaxStructures + 1)}

InitProcess ==
    /\ leave_requests = {}
    /\ leave_seq = 0
    /\ payroll_runs = {}
    /\ payslips = {}
    /\ salary_structures \in StructureTables
    /\ attendance = {}
    /\ calls = [c \in Calls |-> [pc |-> "idle"]]
    /\ last = [op |-> "init", code |-> 0]

ProcessLeave ==
    \E sp \in PayrollSpans : CreateLeaveRequest(1, sp[1], sp[2], "PENDING")

ProcessStart == \E c \in ProcessCalls, r \in RunIds : ProcessBegin(c, r)

ProcessEmployees == \E c \in ProcessCalls : ProcessEmployeesSelect(c)

ProcessStructure == \E c \in ProcessCalls : ProcessStructureSelect(c)

ProcessFinish == \E c \in ProcessCalls : ProcessCommit(c)

NextProcess ==
    \/ ProcessLeave
    \/ ProcessStart
    \/ ProcessEmployees
    \/ ProcessStructure
    \/ ProcessFinish

SpecProcess == InitProcess /\ [][NextProcess]_vars

(* ============================ HALF-DAY SCAN ============================= *)
\* An attendance row is [id, employee_id, date, check_in, check_out, status]; a
\* time of day is <<hour, minute, second>> and NoTime stands for None.
NoTime == <<>>

\* time.strftime("%H:%M"): the seconds are dropped
HourMinute(t) == <<t[1], t[2]>>

\* ">" on two zero-padded "HH:MM" strings
HourMinuteAfter(a, b) == a[1] > b[1] \/ (a[1] = b[1] /\ a[2] > b[2])

\* ">" on two datetime.time values
TimeAfter(a, b) ==
    \/ a[1] > b[1]
    \/ a[1] = b[1] /\ a[2] > b[2]
    \/ a[1] = b[1] /\ a[2] = b[2] /\ a[3] > b[3]

\* str.lower() on the status strings that occur
Lower(status) ==
    CASE status = "HalfDay" -> "halfday"
      [] status = "Present" -> "present"
      [] status = "Absent" -> "absent"
      [] OTHER -> status

\* .order_by(Attendance.date) / records.sort(key=date) of one employee's rows
RECURSIVE OrderByDate(_)
OrderByDate(rows) ==
    IF rows = {}
    THEN <<>>
    ELSE LET first == CHOOSE r \in rows : \A q \in rows : r.date <= q.date
         IN <<first>> \o OrderByDate(rows \ {first})

\* the rows of one employee with start_date <= date <= end_date, by date
AttendanceOf(employee_id, start_date, end_date) ==
    OrderByDate({a \in attendance : /\ a.employee_id = employee_id
                                    /\ a.date >= start_date
                                    /\ a.date <= end_date})

\* get_half_days_leave's lateness test: att.check_in and
\* att.check_in.strftime("%H:%M") > "09:35"
LateCheckIn(att) ==
    /\ att.check_in # NoTime
    /\ HourMinuteAfter(HourMinute(att.check_in), <<9, 35>>)

\* get_company_half_days_leave's lateness test: att.check_in and
\* att.check_in > time(9, 35)
CompanyLateCheckIn(att) ==
    /\ att.check_in # NoTime
    /\ TimeAfter(att.check_in, <<9, 35, 0>>)

\* mutant: the streak is not emptied after its third late day is counted
HalfDayStep_noReset(att, half_days, late_days) ==
    LET is_halfday == att.status = "halfday"
        half_days1 == IF is_halfday THEN Append(half_days, att) ELSE half_days
        late_days1 == IF is_halfday THEN late_days
                      ELSE IF LateCheckIn(att) THEN Append(late_days, att)
                      ELSE <<>>
    IN IF Len(late_days1) = 3
       THEN [half_days |-> Append(half_days1, late_days1[3]), late_days |-> late_days1]
       ELSE [half_days |-> half_days1, late_days |-> late_days1]

\* mutant: a late record that does not fall on the day after the previous
\* late record starts a new streak
HalfDayStep_calendar(att, half_days, late_days) ==
    LET is_halfday == att.status = "halfday"
        half_days1 == IF is_halfday THEN Append(half_days, att) ELSE half_days
        follows == late_days = <<>> \/ att.date = late_days[Len(late_days)].date + 1
        late_days1 == IF is_halfday THEN late_days
                      ELSE IF LateCheckIn(att)
                           THEN (IF follows THEN Append(late_days, att) ELSE <<att>>)
                      ELSE <<>>
    IN IF Len(late_days1) = 3
       THEN [half_days |-> Append(half_days1, late_days1[Len(late_days1)]), late_days |-> <<>>]
       ELSE [half_days |-> half_days1, late_days |-> late_days1]

\* one iteration of get_half_days_leave's loop: half_days and late_days
\* before the record att, to half_days and late_days after it
HalfDayStep(att, half_days, late_days) ==
    LET is_halfday == att.status = "halfday"
        half_days1 == IF is_halfday THEN Append(half_days, att) ELSE half_days
        late_days1 == IF is_halfday THEN late_days
                      ELSE IF LateCheckIn(att) THEN Append(late_days, att)
                      ELSE <<>>
    IN IF Len(late_days1) = 3
       THEN [half_days |-> Append(half_days1, late_days1[Len(late_days1)]), late_days |-> <<>>]
       ELSE [half_days |-> half_days1, late_days |-> late_days1]

\* one iteration of get_company_half_days_leave's inner loop
CompanyHalfDayStep(att, half_days, late_days) ==
    LET is_halfday == Lower(att.status) = "halfday"
        half_days1 == IF is_halfday THEN Append(half_days, att) ELSE half_days
        late_days1 == IF is_halfday THEN <<>>
                      ELSE IF CompanyLateCheckIn(att) THEN Append(late_days, att)
                      ELSE <<>>
    IN IF Len(late_days1) = 3
       THEN [half_days |-> Append(half_days1, late_days1[Len(late_days1)]), late_days |-> <<>>]
       ELSE [half_days |-> half_days1, late_days |-> late_days1]

\* the loop of get_half_days_leave over the records; the result is half_days
RECURSIVE ScanHalfDays(_, _, _)
ScanHalfDays(records, half_days, late_days) ==
    IF records = <<>>
    THEN half_days
    ELSE LET after == HalfDayStep(Head(records), half_days, late_days)
         IN ScanHalfDays(Tail(records), after.half_days, after.late_days)

\* the loop of get_company_half_days_leave over one employee's records
RECURSIVE ScanCompanyHalfDays(_, _, _)
ScanCompanyHalfDays(records, half_days, late_days) ==
    IF records = <<>>
    THEN half_days
    ELSE LET after == CompanyHalfDayStep(Head(records), half_days, late_days)
         IN ScanCompanyHalfDays(Tail(records), after.half_days, after.late_days)

\* len(late_days) at the start of each iteration of get_half_days_leave's
\* loop, one entry per record
RECURSIVE StreaksAtStart(_, _, _)
StreaksAtStart(records, half_days, late_days) ==
    IF records = <<>>
    THEN <<>>
    ELSE LET after == HalfDayStep(Head(records), half_days, late_days)
         IN <<Len(late_days)>> \o
            StreaksAtStart(Tail(records), after.half_days, after.late_days)

\* the same for get_company_half_days_leave's loop over one employee
RECURSIVE CompanyStreaksAtStart(_, _, _)
CompanyStreaksAtStart(records, half_days, late_days) ==
    IF records = <<>>
    THEN <<>>
    ELSE LET after == CompanyHalfDayStep(Head(records), half_days, late_days)
         IN <<Len(late_days)>> \o
            CompanyStreaksAtStart(Tail(records), after.half_days, after.late_days)

\* mutant: a started group of six already counts as a leave
LeaveCount_roundUp(halfday_count) == (halfday_count + 5) \div 6

\* halfday_count // 6
LeaveCount(halfday_count) == halfday_count \div 6

\* the response of get_half_days_leave
HalfDaysLeave(employee_id, start_date, end_date) ==
    LET half_days == ScanHalfDays(AttendanceOf(employee_id, start_date, end_date), <<>>, <<>>)
        halfday_count == Len(half_days)
    IN [halfday_count |-> halfday_count,
        leave_count |-> LeaveCount(halfday_count),
        records |-> half_days]

\* emp_attendance.items(): the employees of the company that have rows in
\* the range, in the order of the query (by employee_id)
RECURSIVE CompanyHalfDays(_, _, _)
CompanyHalfDays(employee_ids, start_date, end_date) ==
    IF employee_ids = {}
    THEN <<>>
    ELSE LET emp_id == CHOOSE e \in employee_ids : \A x \in employee_ids : e <= x
         IN ScanCompanyHalfDays(AttendanceOf(emp_id, start_date, end_date), <<>>, <<>>)
            \o CompanyHalfDays(employee_ids \ {emp_id}, start_date, end_date)

\* the response of get_company_half_days_leave
CompanyHalfDaysLeave(company_id, start_date, end_date) ==
    LET employee_ids == {a.employee_id : a \in
                            {r \in attendance :
                                /\ r.employee_id \in EmployeeIds
                                /\ Employees[r.employee_id].company_id = company_id
                                /\ r.date >= start_date
                                /\ r.date <= end_date}}
        all_results == CompanyHalfDays(employee_ids, start_date, end_date)
        total_halfdays == Len(all_results)
    IN [halfday_count |-> total_halfdays,
        leave_count |-> LeaveCount(total_halfdays),
        records |-> all_results]

\* HRService.get_half_days_leave
GetHalfDaysLeave(employee_id, start_date, end_date) ==
    /\ last' = [op |-> "get_half_days_leave", code |-> 200, employee_id |-> employee_id,
                start_date |-> start_date, end_date |-> end_date]
               @@ HalfDaysLeave(employee_id, start_date, end_date)
    /\ UNCHANGED <<leave_requests, leave_seq, payroll_runs, payslips, salary_structures,
                   attendance, calls>>

\* HRService.get_company_half_days_leave
GetCompanyHalfDaysLeave(company_id, start_date, end_date) ==
    /\ last' = [op |-> "get_company_half_days_leave", code |-> 200,
                company_id |-> company_id,
                start_date |-> start_date, end_date |-> end_date]
               @@ CompanyHalfDaysLeave(company_id, start_date, end_date)
    /\ UNCHANGED <<leave_requests, leave_seq, payroll_runs, payslips, salary_structures,
                   attendance, calls>>

\* ---- the two scans applied to bounded attendance tables ----
\* (check_in, status) of the rows offered: an explicit half-day in the two
\* spellings, a late, a 30-seconds-late and an on-time check-in, and an
\* absence without check-in
AttendanceKinds ==
    {[check_in |-> <<9, 0, 0>>,   status |-> "halfday"],
     [check_in |-> <<9, 0, 0>>,   status |-> "HalfDay"],
     [check_in |-> <<9, 36, 0>>,  status |-> "Present"],
     [check_in |-> <<9, 35, 30>>, status |-> "Present"],
     [check_in |-> <<9, 35, 0>>,  status |-> "Present"],
     [check_in |-> NoTime,        status |-> "Absent"]}

BasicKinds ==
    {k \in AttendanceKinds : k.status = "halfday" \/ k.check_in \in {<<9, 36, 0>>, <<9, 35, 0>>}}

\* the rows of one employee, one per day from 2024-01-02 on (the table has
\* a unique constraint on (employee_id, date))
Table(employee_id, kinds) ==
    {[id |-> 10 * employee_id + i,
      employee_id |-> employee_id, date |-> i, check_in |-> kinds[i].check_in,
      check_out |-> NoTime, status |-> kinds[i].status] : i \in DOMAIN kinds}

\* the rows of one employee on every other day (2024-01-02, 2024-01-04,
\* ...): the days between them have no row
SpreadTable(employee_id, kinds) ==
    {[id |-> 10 * employee_id + i,
      employee_id |-> employee_id, date |-> 2 * i - 1, check_in |-> kinds[i].check_in,
      check_out |-> NoTime, status |-> kinds[i].status] : i \in DOMAIN kinds}

\* employee 2 (the other company) has one explicit half-day.  Employee 1
\* has up to MaxRecords rows of the basic kinds or up to MaxMixed rows of
\* any kind on successive days, or up to MaxMixed rows of the basic kinds
\* on every other day.  Employee 3 (the company of employee 1) has no row,
\* or one of three short tables beside a short table of employee 1.
AttendanceTables ==
    LET halfday == CHOOSE k \in AttendanceKinds : k.status = "halfday"
        late == CHOOSE k \in AttendanceKinds : k.check_in = <<9, 36, 0>>
        other == Table(2, <<halfday>>)
    IN {Table(1, k1) \cup other :
            k1 \in SeqsUpTo(BasicKinds, MaxRecords) \cup SeqsUpTo(AttendanceKinds, MaxMixed)}
       \cup {Table(1, k1) \cup Table(3, k3) \cup other :
                k1 \in SeqsUpTo(BasicKinds, MaxMixed),
                k3 \in {<<halfday>>, <<late>>, <<late, late, late>>}}
       \cup {SpreadTable(1, k1) \cup other : k1 \in SeqsUpTo(BasicKinds, MaxMixed)}

InitScan ==
    /\ leave_requests = {}
    /\ leave_seq = 0
    /\ payroll_runs = {}
    /\ payslips = {}
    /\ salary_structures = {}
    /\ attendance \in AttendanceTables
    /\ calls = [c \in Calls |-> [pc |-> "idle"]]
    /\ last = [op |-> "init", code |-> 0]

\* (start_date, end_date) of the queries
ScanRanges == {<<1, MaxRecords>>, <<2, 4>>}

CompanyIds == {Employees[e].company_id : e \in EmployeeIds}

ScanEmployee ==
    \E e \in EmployeeIds, r \in ScanRanges : GetHalfDaysLeave(e, r[1], r[2])

ScanCompany ==
    \E c \in CompanyIds, r \in ScanRanges : GetCompanyHalfDaysLeave(c, r[1], r[2])

NextScan ==
    \/ ScanEmployee
    \/ ScanCompany

SpecScan == InitScan /\ [][NextScan]_vars

(* ========================== ATTENDANCE WRITERS ========================== *)
\* clock_in, clock_out, mark_attendance and the two updates await a select
\* and then a commit; create_attendance awaits its commit only.  Between
\* the two, calls[c] holds the row as it was loaded (none when the select
\* found nothing) and the row as the handler has set it.  date.today() and
\* datetime.now().time() are inputs of a call.

\* select(Attendance).where(employee_id == ..., date == ...)
AttendanceFor(employee_id, date_) ==
    {a \in attendance : a.employee_id = employee_id /\ a.date = date_}

\* db.get(Attendance, attendance_id)
GetAttendance(attendance_id) == {a \in attendance : a.id = attendance_id}

FreshAttendanceId == Cardinality(attendance) + 1

\* mutant: the table has no unique constraint
UniqueViolation_off(rows, row) == FALSE

\* UniqueConstraint('employee_id', 'date'): another row has the pair of row
UniqueViolation(rows, row) ==
    \E a \in rows : /\ a.id # row.id
                    /\ a.employee_id = row.employee_id
                    /\ a.date = row.date

AttendanceColumns == {"employee_id", "date", "check_in", "check_out", "status"}

\* the row after the UPDATE the commit emits: the columns whose attribute
\* was changed on the loaded object are written, the others stay as they are
Flushed(current, loaded, target) ==
    [f \in DOMAIN current |->
        IF f \in AttendanceColumns /\ target[f] # loaded[f] THEN target[f] ELSE current[f]]

\* db.commit() of a session that holds one new or one loaded Attendance
\* object; IntegrityError when the unique constraint refuses the row
AttendanceCommit(c, code) ==
    LET call == calls[c].call
        target == calls[c].target
        current == GetAttendance(target.id)
        row == IF calls[c].loaded = {}
               THEN target
               ELSE Flushed(CHOOSE a \in current : TRUE,
                            CHOOSE a \in calls[c].loaded : TRUE, target)
    IN
    /\ calls' = [calls EXCEPT ![c] = [pc |-> "idle"]]
    /\ IF UniqueViolation(attendance, row)
       THEN /\ last' = call @@ [code |-> 500]
            /\ UNCHANGED attendance
       ELSE /\ last' = call @@ [code |-> code]
            /\ attendance' = (attendance \ current) \cup {row}
    /\ UNCHANGED <<leave_requests, leave_seq, payroll_runs, payslips, salary_structures>>

\* the call raises before anything is written
AttendanceRefused(call, code) ==
    /\ last' = call @@ [code |-> code]
    /\ UNCHANGED <<leave_requests, leave_seq, payroll_runs, payslips, salary_structures,
                   attendance, calls>>

\* the handler has set its object and reaches its commit
AttendancePending(c, pc, call, loaded, target) ==
    /\ calls' = [calls EXCEPT ![c] =
           [pc |-> pc, call |-> call, loaded |-> loaded, target |-> target]]
    /\ UNCHANGED <<leave_requests, leave_seq, payroll_runs, payslips, salary_structures,
                   attendance, last>>

\* clock_in up to its commit
ClockInSelect(c, employee_id, today, check_in) ==
    LET call == [op |-> "clock_in", employee_id |-> employee_id, date |-> today]
        found == AttendanceFor(employee_id, today)
    IN
    /\ calls[c].pc = "idle"
    /\ IF found = {}
       THEN AttendancePending(c, "clock_in_commit", call, {},
                [id |-> FreshAttendanceId, employee_id |-> employee_id, date |-> today,
                 check_in |-> check_in, check_out |-> NoTime, status |-> "Present"])
       ELSE LET existing == CHOOSE a \in found : TRUE
            IN IF existing.check_in # NoTime
               THEN AttendanceRefused(call, 400)
               ELSE AttendancePending(c, "clock_in_commit", call, {existing},
                        [existing EXCEPT !.check_in = check_in, !.status = "Present"])

ClockInCommit(c) ==
    /\ calls[c].pc = "clock_in_commit"
    /\ AttendanceCommit(c, 200)

\* mutant: a record without check_in can be clocked out
ClockOutRefusal_noCheckIn(found) ==
    IF found = {} THEN 404
    ELSE IF (CHOOSE a \in found : TRUE).check_out # NoTime THEN 400
    ELSE 0

\* the three checks of clock_out: the status code raised, 0 when none
ClockOutRefusal(found) ==
    IF found = {} THEN 404
    ELSE IF (CHOOSE a \in found : TRUE).check_in = NoTime THEN 400
    ELSE IF (CHOOSE a \in found : TRUE).check_out # NoTime THEN 400
    ELSE 0

\* clock_out up to its commit
ClockOutSelect(c, employee_id, today, check_out) ==
    LET call == [op |-> "clock_out", employee_id |-> employee_id, date |-> today]
        found == AttendanceFor(employee_id, today)
    IN
    /\ calls[c].pc = "idle"
    /\ IF ClockOutRefusal(found) # 0
       THEN AttendanceRefused(call, ClockOutRefusal(found))
       ELSE LET attendance_ == CHOOSE a \in found : TRUE
            IN AttendancePending(c, "clock_out_commit", call, {attendance_},
                   [attendance_ EXCEPT !.check_out = check_out])

ClockOutCommit(c) ==
    /\ calls[c].pc = "clock_out_commit"
    /\ AttendanceCommit(c, 200)

\* mark_attendance up to its commit
MarkAttendanceSelect(c, employee_id, check_in, today, current_time) ==
    LET call == [op |-> "mark_attendance", employee_id |-> employee_id, date |-> today]
        found == AttendanceFor(employee_id, today)
    IN
    /\ calls[c].pc = "idle"
    /\ IF found = {}
       THEN AttendancePending(c, "mark_attendance_commit", call, {},
                [id |-> FreshAttendanceId, employee_id |-> employee_id, date |-> today,
                 check_in |-> IF check_in THEN current_time ELSE NoTime,
                 check_out |-> NoTime, status |-> "Present"])
       ELSE LET attendance_ == CHOOSE a \in found : TRUE
            IN AttendancePending(c, "mark_attendance_commit", call, {attendance_},
                   IF check_in /\ attendance_.check_in = NoTime
                   THEN [attendance_ EXCEPT !.check_in = current_time]
                   ELSE IF ~check_in /\ attendance_.check_out = NoTime
                   THEN [attendance_ EXCEPT !.check_out = current_time]
                   ELSE attendance_)

MarkAttendanceCommit(c) ==
    /\ calls[c].pc = "mark_attendance_commit"
    /\ AttendanceCommit(c, 200)

\* HRService.create_attendance: Attendance(**data.model_dump()), committed
CreateAttendance(data) ==
    LET call == [op |-> "create_attendance", employee_id |-> data.employee_id,
                 date |-> data.date]
        row == [id |-> FreshAttendanceId] @@ data
    IN
    /\ IF UniqueViolation(attendance, row)
       THEN /\ last' = call @@ [code |-> 500]
            /\ UNCHANGED attendance
       ELSE /\ last' = call @@ [code |-> 201]
            /\ attendance' = attendance \cup {row}
    /\ UNCHANGED <<leave_requests, leave_seq, payroll_runs, payslips, salary_structures,
                   calls>>

\* HRService.update_attendance (last definition) up to its commit: every
\* field of the payload is copied onto the row
UpdateAttendanceGet(c, attendance_id, data) ==
    LET call == [op |-> "update_attendance", attendance_id |-> attendance_id]
        found == GetAttendance(attendance_id)
    IN
    /\ calls[c].pc = "idle"
    /\ IF found = {}
       THEN AttendanceRefused(call, 404)
       ELSE LET attendance_ == CHOOSE a \in found : TRUE
            IN AttendancePending(c, "update_attendance_commit", call, {attendance_},
                   data @@ attendance_)

UpdateAttendanceCommit(c) ==
    /\ calls[c].pc = "update_attendance_commit"
    /\ AttendanceCommit(c, 200)

\* update_attendance_by_employee up to its commit: the fields that are set
\* in the payload are copied onto the row
UpdateAttendanceByEmployeeSelect(c, employee_id, date_, data) ==
    LET call == [op |-> "update_attendance_by_employee", employee_id |-> employee_id,
                 date |-> date_]
        found == AttendanceFor(employee_id, date_)
    IN
    /\ calls[c].pc = "idle"
    /\ IF found = {}
       THEN AttendanceRefused(call, 404)
       ELSE LET attendance_ == CHOOSE a \in found : TRUE
            IN AttendancePending(c, "update_by_employee_commit", call, {attendance_},
                   data @@ attendance_)

UpdateAttendanceByEmployeeCommit(c) ==
    /\ calls[c].pc = "update_by_employee_commit"
    /\ AttendanceCommit(c, 200)

\* ---- the clock of employee 1 on two days, one request at a time; rows
\* ---- without check_out are also entered through create_attendance
ClockDays == {1, 2}

ClockInTimes == {<<9, 0, 0>>}

ClockOutTimes == {<<17, 30, 0>>}

ClockPayloads ==
    {[employee_id |-> 1, date |-> d, check_in |-> NoTime, check_out |-> NoTime,
      status |-> "Absent"] : d \in ClockDays}

ClockCreate ==
    /\ calls[1].pc = "idle"
    /\ \E data \in ClockPayloads : CreateAttendance(data)

ClockIn == \E d \in ClockDays, t \in ClockInTimes : ClockInSelect(1, 1, d, t)

ClockInDone == ClockInCommit(1)

ClockOut == \E d \in ClockDays, t \in ClockOutTimes : ClockOutSelect(1, 1, d, t)

ClockOutDone == ClockOutCommit(1)

NextClock ==
    \/ ClockCreate
    \/ ClockIn
    \/ ClockInDone
    \/ ClockOut
    \/ ClockOutDone

SpecClock == Init /\ [][NextClock]_vars

\* ---- all the writers of the attendance table, two requests in flight ----
AttendanceCalls == {1, 2}

\* AttendanceCreate payloads of create_attendance and update_attendance: the
\* employee and the day, the other fields at their defaults
AttendancePayloads ==
    {[employee_id |-> 1, date |-> d, check_in |-> NoTime, check_out |-> NoTime,
      status |-> "Present"] : d \in ClockDays}

\* AttendanceUpdate payloads of update_attendance_by_employee (the fields set)
AttendanceUpdates == {[check_out |-> <<17, 30, 0>>]}

AttendanceIds == 1..Cardinality(ClockDays)

WriterCreate == \E data \in AttendancePayloads : CreateAttendance(data)

WriterClockIn ==
    \E c \in AttendanceCalls, t \in ClockInTimes : ClockInSelect(c, 1, 1, t)

WriterClockInDone == \E c \in AttendanceCalls : ClockInCommit(c)

WriterClockOut ==
    \E c \in AttendanceCalls, t \in ClockOutTimes : ClockOutSelect(c, 1, 1, t)

WriterClockOutDone == \E c \in AttendanceCalls : ClockOutCommit(c)

WriterMark ==
    \E c \in AttendanceCalls, check_in \in BOOLEAN :
        MarkAttendanceSelect(c, 1, check_in, 1,
                             IF check_in THEN <<9, 0, 0>> ELSE <<17, 30, 0>>)

WriterMarkDone == \E c \in AttendanceCalls : MarkAttendanceCommit(c)

WriterUpdate ==
    \E c \in AttendanceCalls, id \in AttendanceIds, data \in AttendancePayloads :
        UpdateAttendanceGet(c, id, data)

WriterUpdateDone == \E c \in AttendanceCalls : UpdateAttendanceCommit(c)

WriterUpdateByEmployee ==
    \E c \in AttendanceCalls, d \in ClockDays, data \in AttendanceUpdates :
        UpdateAttendanceByEmployeeSelect(c, 1, d, data)

WriterUpdateByEmployeeDone == \E c \in AttendanceCalls : UpdateAttendanceByEmployeeCommit(c)

NextAttendance ==
    \/ WriterCreate
    \/ WriterClockIn
    \/ WriterClockInDone
    \/ WriterClockOut
    \/ WriterClockOutDone
    \/ WriterMark
    \/ WriterMarkDone
    \/ WriterUpdate
    \/ WriterUpdateDone
    \/ WriterUpdateByEmployee
    \/ WriterUpdateByEmployeeDone

SpecAttendance == Init /\ [][NextAttendance]_vars

(* ================================ CLAIMS ================================ *)
TerminalStatuses == {"APPROVED", "REJECTED"}

\* C1: leave request status follows PENDING -> APPROVED | REJECTED: a request
\* is PENDING right after create_leave_request, and once its status is
\* APPROVED or REJECTED no later call changes it.
C1_LeaveStatusStateMachine ==
    [][ /\ \A l \in leave_requests' :
              (\A k \in leave_requests : k.id # l.id) => l.status = "PENDING"
        /\ \A k \in leave_requests, l \in leave_requests' :
              (k.id = l.id /\ k.status \in TerminalStatuses) => l.status = k.status
      ]_vars

\* C2: approve_leave_request and reject_leave_request are permitted only from
\* PENDING: on a request that is APPROVED or REJECTED the call fails with
\* an error and the request's status is unchanged.
C2_DecideOnlyFromPending ==
    [][ \A l \in leave_requests :
            ( /\ l.status \in TerminalStatuses
              /\ last'.op \in {"approve_leave_request", "reject_leave_request"}
              /\ last'.leave_id = l.id )
            => (last'.code >= 400 /\ l \in leave_requests')
      ]_vars

\* C3: an APPROVED leave request is immutable: update_leave_request and
\* delete_leave_request on it fail with an error, and the row is still
\* there with the same fields afterwards.
C3_ApprovedImmutable ==
    [][ \A l \in leave_requests :
            ( /\ l.status = "APPROVED"
              /\ last'.op \in {"update_leave_request", "delete_leave_request"}
              /\ last'.leave_id = l.id )
            => (last'.code >= 400 /\ l \in leave_requests')
      ]_vars

\* the sum of total_deductions over a set of payslips
RECURSIVE SumOfDeductions(_)
SumOfDeductions(slips) ==
    IF slips = {}
    THEN 0
    ELSE LET p == CHOOSE x \in slips : TRUE
         IN p.total_deductions + SumOfDeductions(slips \ {p})

\* C4: a completed create_leave_request posts leave_days * 2 when
\* start_date <= hire_date + 90 days and leave_days * 1 otherwise, where
\* leave_days = (end_date - start_date).days + 1; the start date alone
\* decides the rate.
C4_DeductionAmount ==
    [][ (last'.op = "create_leave_request" /\ last'.code = 201) =>
            LET leave_days == (last'.end_date - last'.start_date) + 1
                rate == IF last'.start_date <= Employees[last'.employee_id].hire_date + 90
                        THEN 2 ELSE 1
            IN SumOfDeductions(payslips') - SumOfDeductions(payslips) = leave_days * rate
      ]_vars

\* a one-day leave past probation was just posted, and the same employee also
\* has a leave request inside the probation window
C4_Witness ==
    /\ last.op = "create_leave_request"
    /\ last.code = 201
    /\ last.start_date = last.end_date
    /\ last.start_date > Employees[last.employee_id].hire_date + 90
    /\ \E l \in leave_requests :
          /\ l.employee_id = last.employee_id
          /\ l.start_date <= Employees[l.employee_id].hire_date + 90
          /\ l.end_date > l.start_date

\* day ordinal of the first day of each month of 2024 (and of January 2025)
FirstDayOfMonth == <<0, 31, 60, 91, 121, 152, 182, 213, 244, 274, 305, 335, 366>>

\* C5: a completed create_leave_request posts to the payslip of (employee,
\* run), the run being the one of the start date's YYYY-MM and of the
\* employee's company; a missing run is created Draft and a missing
\* payslip is created zeroed before the deduction is added; nothing else
\* is touched.
C5_DeductionTarget ==
    [][ (last'.op = "create_leave_request" /\ last'.code = 201) =>
            LET e == last'.employee_id
                d == last'.start_date
                posted == SumOfDeductions(payslips') - SumOfDeductions(payslips)
            IN \E r \in payroll_runs' :
                 /\ r.company_id = Employees[e].company_id
                 /\ r.month[1] = 2024
                 /\ FirstDayOfMonth[r.month[2]] <= d
                 /\ d < FirstDayOfMonth[r.month[2] + 1]
                 /\ \/ r \in payroll_runs /\ payroll_runs' = payroll_runs
                    \/ /\ \A q \in payroll_runs :
                             ~(q.month = r.month /\ q.company_id = r.company_id)
                       /\ r.status = "Draft"
                       /\ payroll_runs' = payroll_runs \cup {r}
                 /\ \E p \in payslips' :
                       /\ p.employee_id = e
                       /\ p.payroll_run_id = r.id
                       /\ p.net_pay = p.total_earnings - p.total_deductions
                       /\ \/ \E q \in payslips :
                                /\ q.id = p.id
                                /\ q.employee_id = e /\ q.payroll_run_id = r.id
                                /\ p.total_earnings = q.total_earnings
                                /\ p.total_deductions = q.total_deductions + posted
                                /\ payslips' \ {p} = payslips \ {q}
                          \/ /\ \A q \in payslips :
                                   ~(q.employee_id = e /\ q.payroll_run_id = r.id)
                             /\ p.total_earnings = 0
                             /\ p.total_deductions = posted
                             /\ payslips' \ {p} = payslips
      ]_vars

\* employee 1 (hired 2024-01-01) has 6 on the February payslip from the leave
\* 2024-02-01..2024-02-03 and 2 on the June payslip from 2024-06-01..2024-06-02
C5_Witness ==
    /\ last.op = "create_leave_request"
    /\ last.code = 201
    /\ Employees[1].hire_date = 0
    /\ \E l \in leave_requests : l.employee_id = 1 /\ l.start_date = 31 /\ l.end_date = 33
    /\ \E l \in leave_requests : l.employee_id = 1 /\ l.start_date = 152 /\ l.end_date = 153
    /\ \E r \in payroll_runs, p \in payslips :
          /\ r.month = <<2024, 2>> /\ r.company_id = 1 /\ r.status = "Draft"
          /\ p.payroll_run_id = r.id /\ p.employee_id = 1
          /\ p.total_deductions = 6 /\ p.total_earnings = 0
    /\ \E r \in payroll_runs, p \in payslips :
          /\ r.month = <<2024, 6>> /\ r.company_id = 1 /\ r.status = "Draft"
          /\ p.payroll_run_id = r.id /\ p.employee_id = 1
          /\ p.total_deductions = 2 /\ p.total_earnings = 0

\* the deduction of one stored leave request, from its dates
LeaveDeduction(l) ==
    ((l.end_date - l.start_date) + 1)
        * (IF l.start_date <= Employees[l.employee_id].hire_date + 90 THEN 2 ELSE 1)

RECURSIVE SumOfLeaveDeductions(_)
SumOfLeaveDeductions(leaves) ==
    IF leaves = {}
    THEN 0
    ELSE LET l == CHOOSE x \in leaves : TRUE
         IN LeaveDeduction(l) + SumOfLeaveDeductions(leaves \ {l})

\* C6: the linker is not idempotent: when only create_leave_request runs,
\* every payslip's total_deductions is the sum of the deductions of ALL
\* the employee's requests of that month, identical requests counted
\* once each.
C6_DeductionsAccumulate ==
    \A p \in payslips : \A r \in GetPayrollRun(p.payroll_run_id) :
        p.total_deductions =
            SumOfLeaveDeductions({l \in leave_requests :
                                     /\ l.employee_id = p.employee_id
                                     /\ YearMonth(l.start_date) = r.month})

\* two requests with identical parameters were posted and the payslip holds
\* twice the single amount
C6_Witness ==
    /\ last.op = "create_leave_request"
    /\ last.code = 201
    /\ \E l1, l2 \in leave_requests :
          /\ l1.id # l2.id
          /\ l1.employee_id = l2.employee_id
          /\ l1.start_date = l2.start_date /\ l1.end_date = l2.end_date
          /\ l1.status = l2.status
          /\ LeaveDeduction(l1) > 0
          /\ \E p \in payslips :
                /\ p.employee_id = l1.employee_id
                /\ p.total_deductions = 2 * LeaveDeduction(l1)

\* C7: every stored payslip satisfies net_pay = total_earnings -
\* total_deductions after any sequence of create_leave_request,
\* process_payroll, create_payslip and update_payslip.
C7_NetPayInvariant ==
    \A p \in payslips : p.net_pay = p.total_earnings - p.total_deductions

\* C8: process_payroll on a run that is not Draft fails with the
\* invalid-state error and writes nothing.
C8_NonDraftRejected ==
    [][ \A r \in payroll_runs :
            (r.status # "Draft" /\ last'.op = "process_payroll" /\ last'.run_id = r.id)
            => /\ last'.code = 400
               /\ payslips' = payslips
               /\ payroll_runs' = payroll_runs
               /\ UNCHANGED <<leave_requests, leave_seq, salary_structures>>
      ]_vars

\* process_payroll was just refused on a run that an earlier process_payroll
\* had set to Processed, while an employee was due a payslip
C8_Witness ==
    /\ last.op = "process_payroll"
    /\ last.code = 400
    /\ last.was = "Processed"
    /\ \E s \in salary_structures :
          s.is_active /\ Employees[s.employee_id].employment_status = "ACTIVE"

\* the sum of the amounts of the first n components that have type t
RECURSIVE AmountOfType(_, _, _)
AmountOfType(components, t, n) ==
    IF n = 0
    THEN 0
    ELSE AmountOfType(components, t, n - 1)
         + (IF components[n].component_type = t THEN components[n].amount ELSE 0)

\* C9: every payslip created by process_payroll has total_earnings = sum of
\* the BASIC, ALLOWANCE and BONUS amounts of the employee's active
\* structure, total_deductions = sum of its DEDUCTION amounts, and
\* net_pay = total_earnings - total_deductions.
C9_ProcessedPayslipTotals ==
    [][ (last'.op = "process_payroll" /\ last'.code = 200) =>
            \A p \in payslips' \ payslips :
                \E s \in salary_structures :
                    LET n == Len(s.components)
                    IN /\ s.employee_id = p.employee_id
                       /\ s.is_active
                       /\ p.total_earnings =
                              AmountOfType(s.components, "BASIC", n)
                              + AmountOfType(s.components, "ALLOWANCE", n)
                              + AmountOfType(s.components, "BONUS", n)
                       /\ p.total_deductions = AmountOfType(s.components, "DEDUCTION", n)
                       /\ p.net_pay = p.total_earnings - p.total_deductions
      ]_vars

\* a run was just processed and a payslip carries the totals of the
\* five-component structure (earnings 2 + 1 + 4, deductions 3 + 1)
C9_Witness ==
    /\ last.op = "process_payroll"
    /\ last.code = 200
    /\ \E p \in payslips, r \in payroll_runs :
          /\ r.id = last.run_id /\ r.status = "Processed"
          /\ p.payroll_run_id = r.id
          /\ p.total_earnings = 7 /\ p.total_deductions = 4 /\ p.net_pay = 3

\* C10: process_payroll on a Draft run succeeds and creates exactly one
\* payslip for each ACTIVE employee that has a structure with is_active
\* true and none for any other employee, whatever structures exist.
C10_OnePayslipPerPaidEmployee ==
    [][ \A r \in payroll_runs :
            (r.status = "Draft" /\ last'.op = "process_payroll" /\ last'.run_id = r.id)
            => /\ last'.code = 200
               /\ \A e \in EmployeeIds :
                     Cardinality({p \in payslips' \ payslips : p.employee_id = e})
                       = (IF /\ Employees[e].employment_status = "ACTIVE"
                             /\ \E s \in salary_structures :
                                   s.employee_id = e /\ s.is_active
                          THEN 1 ELSE 0)
      ]_vars

\* C11: after any sequence of create_leave_request and process_payroll calls
\* there is at most one Payslip per (employee_id, payroll_run_id): the
\* processor and the linker write to the same row.
C11_OnePayslipPerEmployeeRun ==
    \A p \in payslips, q \in payslips :
        (p.employee_id = q.employee_id /\ p.payroll_run_id = q.payroll_run_id)
            => p.id = q.id

\* C12: create_leave_request for an existing employee never fails for lack of
\* a payroll run or a payslip: when no run of the start date's month and
\* the employee's company exists one is created Draft, when the run has
\* no payslip of the employee one is created zeroed, and in both cases
\* the deduction is posted on that payslip.
C12_LazyMaterialization ==
    [][ (last'.op = "create_leave_request" /\ last'.employee_id \in {1, 2, 3}) =>
            LET e == last'.employee_id
                d == last'.start_date
                amount == ((last'.end_date - d) + 1)
                              * (IF d <= Employees[e].hire_date + 90 THEN 2 ELSE 1)
                InMonth(r) == /\ r.company_id = Employees[e].company_id
                              /\ FirstDayOfMonth[r.month[2]] <= d
                              /\ d < FirstDayOfMonth[r.month[2] + 1]
                runs == {r \in payroll_runs : InMonth(r)}
                Zeroed(p, r) == /\ p.employee_id = e
                                /\ p.payroll_run_id = r.id
                                /\ p.total_earnings = 0
                                /\ p.total_deductions = amount
                                /\ p.net_pay = 0 - amount
            IN /\ runs = {} =>
                    /\ last'.code = 201
                    /\ \E r \in payroll_runs' \ payroll_runs :
                          /\ InMonth(r) /\ r.status = "Draft"
                          /\ \E p \in payslips' \ payslips : Zeroed(p, r)
               /\ \A r \in runs :
                    (runs = {r} /\ \A q \in payslips :
                                      ~(q.employee_id = e /\ q.payroll_run_id = r.id))
                    => /\ last'.code = 201
                       /\ payroll_runs' = payroll_runs
                       /\ \E p \in payslips' \ payslips : Zeroed(p, r)
      ]_vars

\* a leave request was just posted on a payslip created zeroed for a run that
\* another employee's request had created and process_payroll had already
\* processed
C12_Witness ==
    /\ last.op = "create_leave_request"
    /\ last.code = 201
    /\ \E r \in payroll_runs, p \in payslips, q \in payslips :
          /\ r.status = "Processed"
          /\ p.payroll_run_id = r.id /\ p.employee_id = last.employee_id
          /\ p.total_earnings = 0 /\ p.total_deductions > 0
          /\ q.payroll_run_id = r.id /\ q.employee_id # last.employee_id

\* C14: create_leave_request runs as one transaction: the LeaveRequest row
\* and its payslip deduction are both persisted or neither is, so a call
\* that does not complete leaves no request row, run or payslip behind.
C14_SingleTransaction ==
    [][ last'.op = "create_leave_request" =>
            \/ last'.code = 201
            \/ /\ leave_requests' = leave_requests
               /\ payroll_runs' = payroll_runs
               /\ payslips' = payslips
      ]_vars

\* C15: approve_leave_request and reject_leave_request never change any
\* payslip or payroll run: the deduction posted at creation stays on the
\* payslip whether the request is later approved or rejected.
C15_DecisionLeavesPayroll ==
    [][ last'.op \in {"approve_leave_request", "reject_leave_request"} =>
            /\ payslips' = payslips
            /\ payroll_runs' = payroll_runs
      ]_vars

\* a request was just rejected and the employee's payslip still carries the
\* request's deduction
C15_Witness ==
    /\ last.op = "reject_leave_request"
    /\ last.code = 200
    /\ \E l \in leave_requests, p \in payslips :
          /\ l.id = last.leave_id
          /\ l.status = "REJECTED"
          /\ p.employee_id = l.employee_id
          /\ LeaveDeduction(l) > 0
          /\ p.total_deductions = LeaveDeduction(l)

\* C16: create_leave_request for an employee_id that matches no employee
\* fails with NotFound (404) and writes nothing: no LeaveRequest,
\* PayrollRun or Payslip is created or changed.
C16_UnknownEmployeeWritesNothing ==
    [][ (last'.op = "create_leave_request" /\ last'.employee_id \notin {1, 2, 3}) =>
            /\ last'.code = 404
            /\ leave_requests' = leave_requests
            /\ payroll_runs' = payroll_runs
            /\ payslips' = payslips
      ]_vars

\* the call was just refused for an unknown employee while leave requests,
\* a run and a payslip of known employees were stored
C16_Witness ==
    /\ last.op = "create_leave_request"
    /\ last.code = 404
    /\ last.employee_id \notin {1, 2, 3}
    /\ leave_requests # {}
    /\ payroll_runs # {}
    /\ payslips # {}

\* C13: two concurrent create_leave_request calls for the same employee and
\* month are not serialized: the total a call writes is the total it
\* read plus its own deduction, whatever other calls have committed
\* since the read, so a deduction posted in between is lost.
C13_WriteFromStaleRead ==
    [][ \A c \in Calls :
            (calls[c].pc = "apply" /\ calls'[c].pc = "done") =>
                \E p \in payslips' :
                    /\ p.id = calls[c].payslip.id
                    /\ p.total_deductions =
                           calls[c].payslip.total_deductions + calls[c].total_deduction_days
      ]_vars

\* both calls completed on the same payslip, which started at 0, and its
\* total is less than the two deductions together
C13_Witness ==
    \E c1 \in Calls, c2 \in Calls :
        /\ c1 # c2
        /\ calls[c1].pc = "done" /\ calls[c1].code = 201
        /\ calls[c2].pc = "done" /\ calls[c2].code = 201
        /\ calls[c1].call.employee_id = calls[c2].call.employee_id
        /\ Cardinality(payslips) = 1
        /\ Cardinality(leave_requests) = 2
        /\ \A p \in payslips :
              p.total_deductions < SumOfLeaveDeductions(leave_requests)

\* C17: get_half_days_leave returns leave_count = halfday_count integer-
\* divided by 6 (0 for 0..5 half-days, 1 for 6..11), and so does
\* get_company_half_days_leave for its totals.
C17_LeaveCountIsSixth ==
    [][ last'.op \in {"get_half_days_leave", "get_company_half_days_leave"} =>
            /\ last'.halfday_count >= 0
            /\ 6 * last'.leave_count <= last'.halfday_count
            /\ last'.halfday_count < 6 * last'.leave_count + 6
            /\ last'.halfday_count \in 0..5 => last'.leave_count = 0
            /\ last'.halfday_count \in 6..11 => last'.leave_count = 1
      ]_vars

\* get_half_days_leave just answered with six half-days, all on the
\* employee's own rows, and one leave
C17_Witness ==
    /\ last.op = "get_half_days_leave"
    /\ last.halfday_count = 6
    /\ last.leave_count = 1
    /\ Len(last.records) = 6
    /\ \A i \in 1..6 : last.records[i] \in attendance

\* a status that says half-day, in either spelling
IsHalfDayStatus(att) == att.status \in {"HalfDay", "halfday"}

\* check_in is a time of day later than 09:35
CheckedInAfter0935(att) ==
    /\ att.check_in # <<>>
    /\ att.check_in[1] * 3600 + att.check_in[2] * 60 + att.check_in[3] > 9 * 3600 + 35 * 60

\* the number of consecutive late records that end at position i
RECURSIVE LateRun(_, _)
LateRun(records, i) ==
    IF i = 0 \/ ~CheckedInAfter0935(records[i])
    THEN 0
    ELSE 1 + LateRun(records, i - 1)

\* the third, sixth, ... record of every run of consecutive late records
ThirdLates(records) ==
    {records[i] : i \in {j \in 1..Len(records) :
                            LateRun(records, j) > 0 /\ LateRun(records, j) % 3 = 0}}

SeqRange(seq) == {seq[i] : i \in 1..Len(seq)}

\* C18: over records in date order with no explicit HalfDay status, three
\* consecutive records with check_in later than 09:35 add exactly one
\* half-day, the third record; a fourth consecutive late record adds
\* none and a second credit needs three more; in both scans.
C18_ThirdLateIsHalfDay ==
    [][ /\ last'.op = "get_half_days_leave" =>
              LET recs == AttendanceOf(last'.employee_id, last'.start_date, last'.end_date)
              IN (\A i \in 1..Len(recs) : ~IsHalfDayStatus(recs[i])) =>
                    /\ SeqRange(last'.records) = ThirdLates(recs)
                    /\ last'.halfday_count = Cardinality(ThirdLates(recs))
        /\ last'.op = "get_company_half_days_leave" =>
              \A e \in {1, 2, 3} :
                  LET recs == AttendanceOf(e, last'.start_date, last'.end_date)
                  IN ( /\ Employees[e].company_id = last'.company_id
                       /\ \A i \in 1..Len(recs) : ~IsHalfDayStatus(recs[i]) ) =>
                        {r \in SeqRange(last'.records) : r.employee_id = e} = ThirdLates(recs)
      ]_vars

\* C19: in get_half_days_leave and in get_company_half_days_leave a record
\* with HalfDay status resets the late streak: a record credited as the
\* third of a late streak is never within two records after a HalfDay
\* record.
C19_HalfDayResetsStreak ==
    [][ last'.op \in {"get_half_days_leave", "get_company_half_days_leave"} =>
            \A e \in {1, 2, 3} :
                LET recs == AttendanceOf(e, last'.start_date, last'.end_date)
                IN \A i \in 1..Len(recs) :
                      (recs[i] \in SeqRange(last'.records) /\ ~IsHalfDayStatus(recs[i])) =>
                          /\ i >= 3
                          /\ ~IsHalfDayStatus(recs[i - 1])
                          /\ ~IsHalfDayStatus(recs[i - 2])
      ]_vars

RECURSIVE SumOfHalfDayCounts(_, _, _)
SumOfHalfDayCounts(employee_ids, start_date, end_date) ==
    IF employee_ids = {}
    THEN 0
    ELSE LET e == CHOOSE x \in employee_ids : TRUE
         IN HalfDaysLeave(e, start_date, end_date).halfday_count
            + SumOfHalfDayCounts(employee_ids \ {e}, start_date, end_date)

\* C20: get_company_half_days_leave applies the same scan as
\* get_half_days_leave: its halfday_count is the sum over the company's
\* employees of the halfday_count get_half_days_leave returns for the
\* same range, and its records are the union of theirs.
C20_CompanyIsSumOfEmployees ==
    [][ last'.op = "get_company_half_days_leave" =>
            LET employee_ids == {e \in {1, 2, 3} :
                                    Employees[e].company_id = last'.company_id}
            IN /\ last'.halfday_count =
                      SumOfHalfDayCounts(employee_ids, last'.start_date, last'.end_date)
               /\ SeqRange(last'.records) =
                      UNION {SeqRange(HalfDaysLeave(e, last'.start_date,
                                                    last'.end_date).records) :
                                e \in employee_ids}
      ]_vars

\* C21: a record counts as late exactly when its check_in is later than
\* 09:35 (09:35:00 is not late, every later time of day is late), and the
\* per-employee scan and the company scan decide it identically.
C21_LateIffAfter0935 ==
    [][ /\ last'.op = "get_half_days_leave" =>
              LET recs == AttendanceOf(last'.employee_id, last'.start_date, last'.end_date)
              IN \A i \in 1..Len(recs) :
                    /\ LateCheckIn(recs[i]) <=> CheckedInAfter0935(recs[i])
                    /\ LateCheckIn(recs[i]) <=> CompanyLateCheckIn(recs[i])
        /\ last'.op = "get_company_half_days_leave" =>
              \A e \in {1, 2, 3} :
                  LET recs == AttendanceOf(e, last'.start_date, last'.end_date)
                  IN Employees[e].company_id = last'.company_id =>
                        \A i \in 1..Len(recs) :
                            /\ CompanyLateCheckIn(recs[i]) <=> CheckedInAfter0935(recs[i])
                            /\ CompanyLateCheckIn(recs[i]) <=> LateCheckIn(recs[i])
      ]_vars

\* the number of positions of seq that hold x
Occurrences(seq, x) == Cardinality({i \in 1..Len(seq) : seq[i] = x})

\* C30: within one half-day scan no attendance record is counted as a
\* half-day more than once, so halfday_count never exceeds the number of
\* records scanned, and the late streak holds at most 2 records when the
\* processing of a record starts.
C30_CountedOnceStreakBelowThree ==
    [][ /\ last'.op = "get_half_days_leave" =>
              \A recs \in {AttendanceOf(last'.employee_id, last'.start_date, last'.end_date)} :
                  /\ \A r \in SeqRange(last'.records) : Occurrences(last'.records, r) = 1
                  /\ last'.halfday_count <= Len(recs)
                  /\ SeqRange(StreaksAtStart(recs, <<>>, <<>>)) \subseteq 0..2
        /\ last'.op = "get_company_half_days_leave" =>
              /\ \A r \in SeqRange(last'.records) : Occurrences(last'.records, r) = 1
              /\ \A e \in {x \in {1, 2, 3} : Employees[x].company_id = last'.company_id} :
                    \A recs \in {AttendanceOf(e, last'.start_date, last'.end_date)} :
                        SeqRange(CompanyStreaksAtStart(recs, <<>>, <<>>)) \subseteq 0..2
              /\ last'.halfday_count <=
                    Cardinality({a \in attendance :
                                    /\ Employees[a.employee_id].company_id = last'.company_id
                                    /\ a.date >= last'.start_date
                                    /\ a.date <= last'.end_date})
      ]_vars

\* get_half_days_leave just answered for four or more records of which one
\* closed a late streak of three and a later one is counted too
C30_Witness ==
    /\ last.op = "get_half_days_leave"
    /\ LET recs == AttendanceOf(last.employee_id, last.start_date, last.end_date)
           streaks == StreaksAtStart(recs, <<>>, <<>>)
       IN /\ Len(recs) >= 4
          /\ \E n \in 3..(Len(recs) - 1) :
                /\ streaks[n] = 2
                /\ streaks[n + 1] = 0
                /\ LateCheckIn(recs[n])
                /\ Occurrences(last.records, recs[n]) = 1
                /\ \E m \in (n + 1)..Len(recs) : Occurrences(last.records, recs[m]) = 1

\* the same records on successive days
OnSuccessiveDays(records) ==
    [i \in 1..Len(records) |-> [records[i] EXCEPT !.date = i]]

\* the positions of a sequence of records at which a record of the set
\* counted stands
CountedPositions(records, counted) ==
    {i \in 1..Len(records) : records[i] \in counted}

\* check_in is a time of day from 09:36:00 on
CheckedInFrom0936(att) ==
    /\ att.check_in # <<>>
    /\ att.check_in[1] * 60 + att.check_in[2] >= 9 * 60 + 36

\* C22: a calendar day with no attendance record is ignored by the
\* half-day scan: it is neither a half-day nor a late day and does not
\* reset the late streak.  Every record of the answer is a row of the
\* table, the same records are counted as when they lie on successive days,
\* and of records that are all late every third one is counted, whatever
\* days without a record lie between them.
C22_DaysWithoutRecordIgnored ==
    [][ last'.op = "get_half_days_leave" =>
            \A recs \in {AttendanceOf(last'.employee_id, last'.start_date, last'.end_date)} :
            \A packed \in {OnSuccessiveDays(recs)} :
            \A answer \in {SeqRange(last'.records)} :
            \A packed_answer \in {SeqRange(ScanHalfDays(packed, <<>>, <<>>))} :
                /\ answer \subseteq SeqRange(recs)
                /\ CountedPositions(recs, answer) = CountedPositions(packed, packed_answer)
                /\ (\A i \in 1..Len(recs) :
                        ~IsHalfDayStatus(recs[i]) /\ CheckedInFrom0936(recs[i])) =>
                      /\ last'.halfday_count = Len(recs) \div 3
                      /\ CountedPositions(recs, answer) = {i \in 1..Len(recs) : i % 3 = 0}
      ]_vars

\* get_half_days_leave just counted the third of three late records that
\* lie two days apart
C22_Witness ==
    /\ last.op = "get_half_days_leave"
    /\ last.halfday_count = 1
    /\ LET recs == AttendanceOf(last.employee_id, last.start_date, last.end_date)
       IN /\ Len(recs) = 3
          /\ \A i \in 1..3 : recs[i].status = "Present" /\ CheckedInAfter0935(recs[i])
          /\ recs[2].date = recs[1].date + 2
          /\ recs[3].date = recs[2].date + 2
          /\ last.records = <<recs[3]>>

\* the payslip with the given id as it stands in slips, or a payslip with
\* zero amounts when slips has none
PayslipBefore(slips, id) ==
    IF \E p \in slips : p.id = id
    THEN CHOOSE p \in slips : p.id = id
    ELSE [id |-> id, total_earnings |-> 0, total_deductions |-> 0, net_pay |-> 0]

\* C26: create_leave_request never decreases a payslip's total_deductions
\* and never increases its net_pay; for every accepted request, whatever
\* its start_date and end_date, the posted deduction is at least 1.
C26_DeductionAtLeastOne ==
    [][ (last'.op = "create_leave_request" /\ last'.code = 201) =>
            /\ \A q \in payslips' :
                  /\ q.total_deductions >= PayslipBefore(payslips, q.id).total_deductions
                  /\ q.net_pay <= PayslipBefore(payslips, q.id).net_pay
            /\ \E q \in payslips' :
                  /\ q.employee_id = last'.employee_id
                  /\ q.total_deductions >= PayslipBefore(payslips, q.id).total_deductions + 1
      ]_vars

\* C28: when payroll runs are created only by create_leave_request's
\* get-or-create step, at most one PayrollRun exists per (month,
\* company_id), also when two such calls for the same month and company
\* run concurrently.
C28_OneRunPerMonthCompany ==
    \A r1 \in payroll_runs, r2 \in payroll_runs :
        (r1.month = r2.month /\ r1.company_id = r2.company_id) => r1.id = r2.id

\* a payslip with the amounts process_payroll computes from a salary
\* structure of its employee
ProcessorCreated(p) ==
    \E s \in salary_structures :
        /\ s.employee_id = p.employee_id
        /\ p = ProcessedPayslip(p.id, p.employee_id, p.payroll_run_id, s)

\* C27: under concurrent process_payroll calls on the same Draft run at
\* most one call generates payslips: the run never ends up with two
\* processor-created payslips for the same employee.
C27_OneProcessorPerRun ==
    /\ \A c1 \in Calls, c2 \in Calls :
          ( /\ c1 # c2
            /\ calls[c1].pc = "done" /\ calls[c2].pc = "done"
            /\ calls[c1].call.op = "process_payroll" /\ calls[c1].code = 200
            /\ calls[c2].call.op = "process_payroll" /\ calls[c2].code = 200
            /\ calls[c1].call.run_id = calls[c2].call.run_id )
          => (calls[c1].pending = {} \/ calls[c2].pending = {})
    /\ \A p \in payslips, q \in payslips :
          ( /\ p.employee_id = q.employee_id
            /\ p.payroll_run_id = q.payroll_run_id
            /\ ProcessorCreated(p) /\ ProcessorCreated(q) )
          => p.id = q.id

\* C24: process_payroll is all-or-nothing.  A step of a call that does not
\* end it with success writes nothing; when the call fails inside the loop
\* over the employees no payslip of it is persisted and the run stays
\* Draft; when it succeeds, the payslips of all the employees it visited
\* and the run status Processed are persisted in the same step.
C24_AllOrNothing ==
    [][ \A c \in ProcessCalls :
          (calls'[c] # calls[c] /\ calls'[c].call.op = "process_payroll") =>
              LET run_id == calls'[c].call.run_id
                  added == payslips' \ payslips
              IN IF calls'[c].pc = "done" /\ calls'[c].code = 200
                 THEN /\ Cardinality(added) = Cardinality(calls'[c].pending)
                      /\ \A x \in calls'[c].pending :
                            \E p \in added :
                                p = ProcessedPayslip(p.id, x.employee_id, run_id,
                                                     x.salary_structure)
                      /\ \A r \in payroll_runs' : r.id = run_id => r.status = "Processed"
                 ELSE /\ payslips' = payslips
                      /\ payroll_runs' = payroll_runs
                      /\ ( /\ calls'[c].pc = "done"
                           /\ ~\E d \in ProcessCalls \ {c} :
                                 /\ calls[d].pc = "done"
                                 /\ calls[d].code = 200
                                 /\ calls[d].call.run_id = run_id )
                         => \A r \in payroll_runs' : r.id = run_id => r.status = "Draft"
      ]_vars

\* a process_payroll call failed on an employee with two active structures
\* after it had added another employee's payslip to its session: the run is
\* Draft and has no processor-created payslip
C24_Witness ==
    /\ last.op = "process_payroll"
    /\ last.code = 500
    /\ \E c \in ProcessCalls :
          /\ calls[c].pc = "done"
          /\ calls[c].code = 500
          /\ calls[c].call = [op |-> "process_payroll", run_id |-> last.run_id]
          /\ calls[c].pending # {}
          /\ \E r \in payroll_runs : r.id = last.run_id /\ r.status = "Draft"
          /\ ~\E p \in payslips : p.payroll_run_id = last.run_id /\ ProcessorCreated(p)

\* C29: process_payroll leaves every payslip that existed before the call
\* unchanged and changes the status of no run other than the one
\* processed: it only inserts new payslips, for that run, and sets that
\* run's status.
C29_ProcessFrame ==
    [][ /\ \A c \in ProcessCalls :
              (calls'[c] # calls[c] /\ calls'[c].call.op = "process_payroll") =>
                  LET run_id == calls'[c].call.run_id
                  IN /\ payslips \subseteq payslips'
                     /\ \A p \in payslips' \ payslips :
                           /\ p.payroll_run_id = run_id
                           /\ ~\E q \in payslips : q.id = p.id
                     /\ \A r \in payroll_runs : r.id # run_id => r \in payroll_runs'
                     /\ \A r \in payroll_runs :
                           r.id = run_id =>
                               \/ r \in payroll_runs'
                               \/ [r EXCEPT !.status = "Processed"] \in payroll_runs'
                     /\ Cardinality(payroll_runs') = Cardinality(payroll_runs)
                     /\ UNCHANGED <<leave_requests, salary_structures, attendance>>
        /\ (last'.op = "process_payroll" /\ last'.code \in {400, 404}) =>
              UNCHANGED <<leave_requests, payroll_runs, payslips, salary_structures,
                          attendance>>
      ]_vars

\* a process_payroll call just succeeded on a run that already held a
\* payslip posted by a leave request, while another run exists: the old
\* payslip stands beside the new one and the other run is Draft
C29_Witness ==
    /\ last.op = "process_payroll"
    /\ last.code = 200
    /\ \E r \in payroll_runs : r.id = last.run_id /\ r.status = "Processed"
    /\ \E r \in payroll_runs : r.id # last.run_id /\ r.status = "Draft"
    /\ \E p \in payslips, q \in payslips :
          /\ p.payroll_run_id = last.run_id
          /\ q.payroll_run_id = last.run_id
          /\ p.employee_id = q.employee_id
          /\ p.total_earnings = 0 /\ p.total_deductions > 0
          /\ ProcessorCreated(q)

\* C23: after any sequence and interleaving of clock_in, clock_out,
\* mark_attendance, create_attendance and attendance updates, at most one
\* attendance record exists per (employee_id, date).
C23_OneRecordPerEmployeeDate ==
    \A a \in attendance, b \in attendance :
        (a.employee_id = b.employee_id /\ a.date = b.date) => a = b

\* a clock_in that found no record for today was refused at its commit,
\* because another request had inserted the day's record in the meantime
C23_Witness ==
    /\ last.op = "clock_in"
    /\ last.code = 500
    /\ Cardinality(AttendanceFor(last.employee_id, last.date)) = 1
    /\ Cardinality(attendance) = 2

\* the record of an employee and a day has its check_in / check_out set
CheckInSet(rows) == \E a \in rows : a.check_in # <<>>

CheckOutSet(rows) == \E a \in rows : a.check_out # <<>>

\* C25: for each employee and day the successful clock operations occur in
\* the order clock_in then clock_out, each at most once.  clock_in is
\* refused exactly when check_in is already set; clock_out is refused
\* exactly when there is no record for today (404), no check_in or a
\* check_out already set (400); a refused call leaves the table unchanged;
\* a successful clock_in sets check_in and a successful clock_out sets
\* check_out on the day's record and nothing else; a time once set is not
\* changed; so check_out is set only on records whose check_in is set.
C25_ClockInThenClockOut ==
    [][ /\ \* a call is refused by its checks
           (calls' = calls /\ last'.op \in {"clock_in", "clock_out"}) =>
              LET found == AttendanceFor(last'.employee_id, last'.date)
              IN /\ attendance' = attendance
                 /\ last'.op = "clock_in" => (last'.code = 400 /\ CheckInSet(found))
                 /\ last'.op = "clock_out" =>
                       \/ last'.code = 404 /\ found = {}
                       \/ last'.code = 400 /\ found # {}
                                           /\ (~CheckInSet(found) \/ CheckOutSet(found))
        /\ \* a call passes its checks
           (calls[1].pc = "idle" /\ calls'[1].pc # "idle") =>
              LET call == calls'[1].call
                  found == AttendanceFor(call.employee_id, call.date)
              IN /\ attendance' = attendance
                 /\ call.op = "clock_in" => ~CheckInSet(found)
                 /\ call.op = "clock_out" =>
                       (found # {} /\ CheckInSet(found) /\ ~CheckOutSet(found))
        /\ \* a call that passed its checks commits
           (calls[1].pc # "idle" /\ calls'[1].pc = "idle") =>
              LET call == calls[1].call
                  found == AttendanceFor(call.employee_id, call.date)
                  after == {a \in attendance' : a.employee_id = call.employee_id
                                                /\ a.date = call.date}
              IN /\ last' = call @@ [code |-> 200]
                 /\ attendance' \ after = attendance \ found
                 /\ Cardinality(after) = 1
                 /\ call.op = "clock_in" =>
                       /\ ~CheckInSet(found)
                       /\ CheckInSet(after) /\ ~CheckOutSet(after)
                       /\ \A a \in after : a.status = "Present"
                 /\ call.op = "clock_out" =>
                       /\ CheckInSet(found) /\ ~CheckOutSet(found)
                       /\ CheckOutSet(after)
                       /\ \A a \in after, b \in found :
                             [a EXCEPT !.check_out = b.check_out] = b
        /\ \* a time that is set is not changed
           \A a \in attendance :
              \E b \in attendance' :
                 /\ b.id = a.id
                 /\ a.check_in # <<>> => b.check_in = a.check_in
                 /\ a.check_out # <<>> => b.check_out = a.check_out
        /\ \A a \in attendance' : a.check_out # <<>> => a.check_in # <<>>
      ]_vars

\* a third clock operation of the day was refused: the day's record has
\* check_in and check_out set and clock_out answered 400
C25_Witness ==
    /\ last.op = "clock_out"
    /\ last.code = 400
    /\ calls[1].pc = "idle"
    /\ \E a \in AttendanceFor(last.employee_id, last.date) :
          a.check_in # <<>> /\ a.check_out # <<>>

====
